---- MODULE Spec2Model ----
(***************************************************************************)
(* A model of the llm-council backend: the stage orchestration engine      *)
(* (backend/council.py, Council.run and its entry points) and the          *)
(* OpenRouter client's retry policy (backend/openrouter.py, query_model).  *)
(*                                                                         *)
(* Spec   : one execution of Council.run, called by one of the entry       *)
(*          points of council.py (which hydrates the council first),       *)
(*          against an abstract ModelClient.                               *)
(* SpecQM : one execution of query_model against an upstream that answers  *)
(*          every HTTP attempt with an arbitrary outcome.                  *)
(* SpecFn : one application of a pure function of the backend to           *)
(*          arguments drawn from bounded sets.                             *)
(***************************************************************************)
EXTENDS Integers, Sequences, FiniteSets, TLC

(***************************************************************************)
(* Bounds of the model.                                                    *)
(***************************************************************************)
\* Number of members of the hydrated council (Council.members).
NumMembers == 2

(***************************************************************************)
(* Council definition: members, chairman, stages.                          *)
(***************************************************************************)
Members == 1..NumMembers

\* The chairman is not a member; calls made for it carry who = Chair.
Chair == 0

MemberNames == <<"Ada", "Bo", "Cy", "Di", "Ed">>

\* Member.name
MemberName(m) == MemberNames[m]

\* Chairman.name
ChairmanName == "Chairman"

\* Chairman.model_id
ChairmanModelId == "chairman/model"

\* system_text of a member call: persona prompt plus the member's addendum.
SystemText(who) == <<"persona+addendum", who>>

\* StageMetadata.kind of the stage ids used by the councils of the model.
Kind(stageId) ==
    IF stageId \in {"delegate-prompt", "peer-review", "re-review"}
      THEN "fanout_members" ELSE "single"

\* The ordered stage lists (Council.stages) of the councils of the model.
StageLists ==
    { <<"delegate-prompt", "peer-review", "synthesize-output">>,
      <<"validate-council-applicability", "delegate-prompt", "peer-review",
        "synthesize-output">>,
      <<"improve-prompt", "delegate-prompt", "peer-review", "synthesize-output">> }

\* A council with more stages than the numeric subset has numbers for: a third
\* fanout stage and a second chairman stage.
LateStageLists ==
    { <<"delegate-prompt", "peer-review", "re-review", "synthesize-output", "final-edit">> }

\* The stage subsets such a council is run with: those that leave out a fanout
\* number, so that at most two of the three fanout stages are executed.
LateSubsets == {{1}, {2}, {3}, {1, 3}, {2, 3}}

\* The entry points of council.py that start Council.run.
Entries ==
    {"run_full_council", "stage1_collect_responses", "stage2_collect_rankings",
     "stage3_synthesize_final"}

\* A caller that calls Council.run itself, with a stage subset of its own. The
\* entry points above are called without a run id (main.py); such a caller may
\* supply one.
DirectCall == "Council.run"
DirectSubsets == {{2}, {3}, {2, 3}, {1, 3}}

\* run_id: None, the id the run generates, an id the caller supplies.
NoRunId == "None"
GeneratedRunId == "run-generated"
CallerRunId == "run-caller"

\* stages_to_run passed by each entry point.
StagesOf(e) ==
    CASE e = "stage1_collect_responses" -> {1}
      [] e = "stage2_collect_rankings" -> {1, 2}
      [] OTHER -> {1, 2, 3}

(***************************************************************************)
(* Contents returned by model calls, and the JSON they may hold.           *)
(***************************************************************************)
Absent == "<absent>"

cStop == "{\"decision\": \"STOP\"}"
cGo == "{\"decision\": \"GO\"}"
cImproved == "{\"improved_query\": \" better \"}"
cList == "[1]"

\* message.get('content') of a 200 response whose message has "content": null
\* (openrouter.py line 150 anticipates it): the call returns {'content': None}.
NullContent == "<None>"

\* What a member's call may answer, and what the chairman's call may answer.
MemberContents == {"answer", NullContent}
ChairContents == {"final", "", cStop, cGo, cImproved, cList}

\* What the chairman's call may answer at a stage: where the output is parsed
\* (lines 447-455) an object of each shape, a JSON value that is no object and
\* a text that is no JSON; elsewhere (lines 466-474) a text and no text.
ChairContentsAt(stageId) ==
    CASE stageId = "improve-prompt" -> {cImproved, cGo, cList, ""}
      [] stageId = "validate-council-applicability" -> {cStop, cGo, cImproved, cList, ""}
      [] OTHER -> {"final", ""}

EmptyObj == [decision |-> Absent, improved_query |-> Absent]

\* Mutant: a text json.loads rejects is taken for a STOP decision.
ParseJson_stopOnInvalid(content) ==
    CASE content \in {cStop, ""} -> [decision |-> "STOP", improved_query |-> Absent]
      [] content = cGo -> [decision |-> "GO", improved_query |-> Absent]
      [] content = cImproved -> [decision |-> Absent, improved_query |-> " better "]
      [] OTHER -> [decision |-> Absent, improved_query |-> Absent]

\* _parse_json: json.loads, and {} unless the value is an object.
ParseJson(content) ==
    CASE content = cStop -> [decision |-> "STOP", improved_query |-> Absent]
      [] content = cGo -> [decision |-> "GO", improved_query |-> Absent]
      [] content = cImproved -> [decision |-> Absent, improved_query |-> " better "]
      [] OTHER -> EmptyObj

\* json.dumps(parsed, indent=2) of the objects above.
JsonDumpsIndent2(obj) ==
    CASE obj.decision = "STOP" -> "{\n  \"decision\": \"STOP\"\n}"
      [] obj.decision = "GO" -> "{\n  \"decision\": \"GO\"\n}"
      [] obj.improved_query # Absent -> "{\n  \"improved_query\": \" better \"\n}"
      [] OTHER -> "{}"

\* Mutant: the improved query is stored untrimmed.
Strip_none(s) == s

\* str.strip() of the improved queries above.
Strip(s) == IF s = " better " THEN "better" ELSE s

VARIABLES
    \* ---- Council.run ----
    stages,         \* Council.stages (stage ids, in declared order)
    stagesToRun,    \* stages_to_run_set
    pc,             \* position of the controlling routine
    idx,            \* index in stages of the stage being executed
    fanout_seen,
    chairman_seen,
    calls,          \* every call dispatched (tasks), in dispatch order
    order,          \* calls of the stage being awaited, in completion order
    stage1_results,
    stage2_results,
    stage3_result,
    ctx,            \* the run's context map
    timeoutLog,     \* council.stage.timeout events
    errorLog,       \* council.stage.task_error events
    metadata_out,
    ret,            \* what the entry point returns
    run_id,         \* the run_id argument, then the run's id
    ambient_run_id, \* observability._current_run_id
    docs,           \* what is behind each reference of the council definition
    council,        \* what load_council returned to the entry point
    \* ---- query_model ----
    qmodel,         \* the model argument
    qpc,
    attempt,
    httpLog,        \* the outcome of every HTTP attempt made
    qresult,
    qlog,           \* the events logged
    \* ---- one application of a function of the backend ----
    fnName,         \* the function applied
    fnArg,          \* its arguments
    fnDone,         \* whether it has been applied
    fnRes,          \* what it returned or raised
    \* ---- send_message_stream.event_generator ----
    gen_pc,             \* position of the generator
    req_stages,         \* stages (the normalized request.stages)
    is_first_message,
    sse,                \* the events yielded, in order
    stored,             \* the calls made to storage, in order
    g_stage1_results,   \* the generator's stage1_results
    g_stage2_results,   \* the generator's stage2_results
    g_label_to_model,   \* the generator's label_to_model
    g_stage3_result,    \* the generator's stage3_result
    gen_runs            \* the council runs the entry points made, in order

runVars ==
    <<stages, stagesToRun, pc, idx, fanout_seen, chairman_seen, calls, order,
      stage1_results, stage2_results, stage3_result, ctx, timeoutLog, errorLog,
      metadata_out, ret, run_id, ambient_run_id, docs, council>>

qmVars == <<qmodel, qpc, attempt, httpLog, qresult, qlog>>

fnVars == <<fnName, fnArg, fnDone, fnRes>>

genVars ==
    <<gen_pc, req_stages, is_first_message, sse, stored, g_stage1_results,
      g_stage2_results, g_label_to_model, g_stage3_result, gen_runs>>

vars == <<runVars, qmVars, fnVars, genVars>>

\* What an execution of Council.run, of query_model, or an application of a
\* function leaves alone.
notRunVars == <<qmVars, fnVars, genVars>>
notQmVars == <<runVars, fnVars, genVars>>
notFnVars == <<runVars, qmVars, genVars>>
notGenVars == <<runVars, qmVars, fnVars>>

(***************************************************************************)
(* Program constants of council.py.                                        *)
(***************************************************************************)
STAGE1_WALL_TIMEOUT_S == 45
STAGE2_WALL_TIMEOUT_S == 60
STAGE3_WALL_TIMEOUT_S == 120

Labels == <<"Response A", "Response B", "Response C", "Response D", "Response E">>

(***************************************************************************)
(* Helpers of Council.run.                                                 *)
(***************************************************************************)
\* d[k] = v on a dict.
Put(d, k, v) == [x \in (DOMAIN d) \cup {k} |-> IF x = k THEN v ELSE d[x]]

\* The context map Council.run starts from.
InitCtx ==
    [k \in {"user_query", "council_prompt", "stage_context", "responses_text",
            "rankings_text", "stage1_text", "stage2_text"} |->
        CASE k = "user_query" -> "q"
          [] k = "council_prompt" -> "cp"
          [] OTHER -> <<>>]

\* An empty dict result ({}), as stage3_result starts.
EmptyResult == [model |-> Absent, member_name |-> Absent, response |-> Absent]

\* Mutant: only the panel's part is ever put in stage_context.
RefreshStageContext_stage1Only(c) ==
    Put(c, "stage_context",
        IF c["stage1_text"] # <<>> THEN << <<"Stage 1", c["stage1_text"]>> >> ELSE <<>>)

\* _refresh_stage_context: the parts that are non-empty, in order.
RefreshStageContext(c) ==
    Put(c, "stage_context",
        (IF c["stage1_text"] # <<>> THEN << <<"Stage 1", c["stage1_text"]>> >> ELSE <<>>)
        \o (IF c["stage2_text"] # <<>> THEN << <<"Stage 2", c["stage2_text"]>> >> ELSE <<>>))

\* An f-string's rendering of a value: None is rendered as the word None.
FStr(v) == IF v = NullContent THEN "None" ELSE v

\* "\n\n".join(f"{member_name}\n{text}"): one block per row.
JoinRows(rows, field) ==
    [k \in 1..Len(rows) |-> <<rows[k].member_name, FStr(rows[k][field])>>]

\* "\n".join(lines) in _format_stage1_text and "FINAL RANKING:" in ranking_text
\* in parse_ranking_from_text both raise TypeError on None.
HasNullContent(rows, field) == \E k \in 1..Len(rows) : rows[k][field] = NullContent

\* Lines 403-409: the rows appended before parse_ranking_from_text raised.
RowsBeforeNull(rows, field) ==
    SubSeq(rows, 1, (CHOOSE k \in 1..Len(rows) :
                        /\ rows[k][field] = NullContent
                        /\ \A j \in 1..(k - 1) : rows[j][field] # NullContent) - 1)

\* _format_stage1_text / _format_stage2_text: numbered blocks, one per row.
FormatStageText(rows, field) ==
    [k \in 1..Len(rows) |-> <<k, rows[k].member_name, rows[k][field]>>]

\* Mutant: every call of a fanout stage is rendered from the context as the
\* dispatch loop leaves it (the persona prompt of the last member).
CallContext_aliased(c, who) ==
    Put(c, "persona_prompt", SystemText(IF who = Chair THEN Chair ELSE NumMembers))

\* Lines 348 and 425: the context a call's prompt is rendered from carries the
\* system text of the member (or chairman) the call is for.
CallContext(c, who) == Put(c, "persona_prompt", SystemText(who))

\* Council.render_stage_prompt in the run: the stage's template formatted with
\* the values the context holds when the call is rendered.
RenderedPrompt(stageId, context) == <<stageId, context>>

\* _build_messages_simple (lines 95-100): a new list for every call, the
\* system message first unless the system text is empty.
BuildMessagesSimple(user_text, system_text) ==
    (IF system_text # <<>> THEN <<[role |-> "system", content |-> system_text]>> ELSE <<>>)
    \o <<[role |-> "user", content |-> user_text]>>

\* Lines 344-351 and 421-431: the task created for one call, holding the
\* message list built for it.
NewCall(i, who, c) ==
    [stage |-> i, who |-> who, st |-> "running", content |-> "",
     messages |-> BuildMessagesSimple(RenderedPrompt(stages[i], CallContext(c, who)),
                                      SystemText(who))]

\* Mutant: no fanout stage is gated out.
FanoutSkipped_never(n) == FALSE

\* The gates of the numeric stage subset.
FanoutSkipped(n) == (n = 1 /\ 1 \notin stagesToRun) \/ (n = 2 /\ 2 \notin stagesToRun)

\* Mutant: stage number 3 gates every chairman stage.
ChairmanSkipped_every(n) == 3 \notin stagesToRun

\* Lines 417-419: only the first chairman stage is gated.
ChairmanSkipped(n) == n = 1 /\ 3 \notin stagesToRun

\* fanout_seen when the stage at index i is reached: the fanout stages up to i.
FanoutNumber(i) == Cardinality({k \in 1..i : Kind(stages[k]) = "fanout_members"})

\* The result list the fanout stage at index i assigns: the first fanout stage
\* stage1_results, every later one stage2_results.
ResultsOf(i) == IF FanoutNumber(i) = 1 THEN stage1_results ELSE stage2_results

\* The calls of stage i, in dispatch order (member_tasks).
MemberTasks(i) ==
    SelectSeq([c \in 1..Len(calls) |-> c], LAMBDA c : calls[c].stage = i)

\* A task that asyncio.wait reports in its done set.
DoneStates == {"ok", "none", "raised"}
InDone(c) == calls[c].st \in DoneStates

\* Mutant: the results are assembled in completion order.
AssembleOrder_completion(i) ==
    order \o SelectSeq(MemberTasks(i), LAMBDA c : \A k \in 1..Len(order) : order[k] # c)

\* The order in which the results of stage i are assembled: member_tasks order.
AssembleOrder(i) == MemberTasks(i)

\* Mutant: pending tasks are not cancelled.
CancelRequested_forgotten(st) == st

\* What t.cancel() makes of a pending task: its cancellation is requested, and
\* it will not complete with a result any more.
CancelRequested(st) == "cancelled"

\* Mutant: a row is built for every task, done or not, that did not raise.
Contributes_notDone(c) == calls[c].st # "raised"

\* t.result() of a done task contributes a row unless it raises.
Contributes(c) == InDone(c) /\ calls[c].st # "raised"

\* r.get("content", "") if isinstance(r, dict) else "": a call that returned
\* None yields the empty string.
ContentOf(c) == IF calls[c].st = "ok" THEN calls[c].content ELSE ""

\* Mutant: a STOP decision does not leave the stage loop.
ShouldStop_never(stageId, parsed) == FALSE

\* The validate-council-applicability short-circuit.
ShouldStop(stageId, parsed) ==
    stageId = "validate-council-applicability" /\ parsed.decision = "STOP"

\* The run is suspended at an await: the tasks it created may run. The calls
\* of a run are followed until the run has ended.
Suspended == pc \in {"waitFanout", "waitChair"}

(***************************************************************************)
(* Hydration: load_council and the documents it resolves.                  *)
(***************************************************************************)
\* A reference of a council definition: the council document itself, its
\* chairman, a member (by id), a persona (of the chairman: id Chair; of a
\* member: the member's id), a stage (by position in the stage list).
Ref(kind, id) == [kind |-> kind, id |-> id]
NoRef == Ref("none", 0)

Refs(member_ids, stage_list) ==
    {Ref("council", 0), Ref("chairman", 0), Ref("persona", Chair)}
    \cup {Ref("member", m) : m \in member_ids}
    \cup {Ref("persona", m) : m \in member_ids}
    \cup {Ref("stage", i) : i \in 1..Len(stage_list)}

\* What _CouncilMetadata.from_file finds behind a reference: a document it
\* loads, no file, a file whose front matter is absent or does not parse, a
\* document that lacks a required field of its kind.
DocStatuses == {"ok", "missing", "unparseable", "field_missing"}

\* The documents behind the references: all of them load, or up to two do not.
DocStates(refs) ==
    {[r \in refs |-> IF r = r1 THEN s1 ELSE IF r = r2 THEN s2 ELSE "ok"] :
        r1 \in refs, r2 \in refs, s1 \in DocStatuses, s2 \in DocStatuses}

\* Mutant: the persona of a member or chairman is not resolved.
Resolves_personas_unchecked(found, r) == r.kind = "persona" \/ found[r] = "ok"

\* from_file returns the definition; otherwise it raises.
Resolves(found, r) == found[r] = "ok"

\* The error from_file raises for a document that does not load.
LoadErrorOf(status) == IF status = "field_missing" THEN "TypeError" ELSE "RuntimeError"

\* The order in which load_council resolves the references (lines 544-551):
\* the council, its chairman and the chairman's persona, each member and its
\* persona in declared order, each stage in declared order.
LoadOrder(member_list, stage_list) ==
    <<Ref("council", 0), Ref("chairman", 0), Ref("persona", Chair)>>
    \o [k \in 1..(2 * Len(member_list)) |->
           IF k % 2 = 1 THEN Ref("member", member_list[(k + 1) \div 2])
           ELSE Ref("persona", member_list[k \div 2])]
    \o [i \in 1..Len(stage_list) |-> Ref("stage", i)]

\* No council has been loaded yet.
NotLoaded == [kind |-> "none", exc |-> "", unresolved |-> NoRef, members |-> <<>>, stages |-> <<>>]

\* load_council (lines 544-553): the hydrated council, or the error of the
\* first reference that does not resolve.
LoadCouncil(def) ==
    LET load_order == LoadOrder(def.members, def.stages)
        bad == {k \in 1..Len(load_order) : ~Resolves(def.docs, load_order[k])}
    IN IF bad = {}
         THEN [kind |-> "ok", exc |-> "", unresolved |-> NoRef,
               members |-> def.members, stages |-> def.stages]
         ELSE LET k == CHOOSE j \in bad : \A i \in bad : j <= i
              IN [kind |-> "error", exc |-> LoadErrorOf(def.docs[load_order[k]]),
                  unresolved |-> load_order[k], members |-> <<>>, stages |-> <<>>]

(***************************************************************************)
(* Council.run.                                                            *)
(***************************************************************************)
InitRun ==
    /\ stages \in StageLists
    /\ \/ /\ stagesToRun \in {StagesOf(e) : e \in Entries}
          /\ run_id = NoRunId
       \/ /\ stagesToRun \in DirectSubsets
          /\ run_id \in {NoRunId, CallerRunId}
    /\ ambient_run_id = NoRunId
    /\ docs \in DocStates(Refs(Members, stages))
    /\ council = NotLoaded
    /\ pc = "hydrate"
    /\ idx = 1
    /\ fanout_seen = 0
    /\ chairman_seen = 0
    /\ calls = <<>>
    /\ order = <<>>
    /\ stage1_results = <<>>
    /\ stage2_results = <<>>
    /\ stage3_result = EmptyResult
    /\ ctx = <<>>
    /\ timeoutLog = <<>>
    /\ errorLog = {}
    /\ metadata_out = <<>>
    /\ ret = <<>>

\* The first statement of every entry point (lines 561, 578, 596, 676): the
\* council is hydrated. When a reference does not resolve load_council raises,
\* and so does the entry point: Council.run is not called.
Hydrate ==
    /\ pc = "hydrate"
    /\ council' = LoadCouncil([members |-> [m \in Members |-> m], stages |-> stages,
                               docs |-> docs])
    /\ pc' = IF council'.kind = "ok" THEN "start" ELSE "hydration_failed"
    /\ UNCHANGED <<stages, stagesToRun, idx, fanout_seen, chairman_seen, calls,
                   order, stage1_results, stage2_results, stage3_result, ctx,
                   timeoutLog, errorLog, metadata_out, ret, run_id, ambient_run_id,
                   docs>>
    /\ UNCHANGED notRunVars

\* Lines 257-327: the run starts with a fresh context and empty results.
RunStart ==
    /\ pc = "start"
    /\ pc' = "loop"
    /\ ctx' = InitCtx
    /\ run_id' = IF run_id = NoRunId THEN GeneratedRunId ELSE run_id
    /\ ambient_run_id' = IF run_id = NoRunId THEN GeneratedRunId ELSE ambient_run_id
    /\ UNCHANGED <<stages, stagesToRun, idx, fanout_seen, chairman_seen, calls,
                   order, stage1_results, stage2_results, stage3_result, timeoutLog,
                   errorLog, metadata_out, ret, docs, council>>
    /\ UNCHANGED notRunVars

\* A stage the numeric subset gates out: the counter advances, nothing else.
SkipStage ==
    /\ pc = "loop"
    /\ idx <= Len(stages)
    /\ IF Kind(stages[idx]) = "fanout_members"
         THEN /\ FanoutSkipped(fanout_seen + 1)
              /\ fanout_seen' = fanout_seen + 1
              /\ UNCHANGED chairman_seen
         ELSE /\ ChairmanSkipped(chairman_seen + 1)
              /\ chairman_seen' = chairman_seen + 1
              /\ UNCHANGED fanout_seen
    /\ idx' = idx + 1
    /\ order' = <<>>
    /\ UNCHANGED <<stages, stagesToRun, pc, calls, stage1_results,
                   stage2_results, stage3_result, ctx, timeoutLog, errorLog,
                   metadata_out, ret>>
    /\ UNCHANGED <<run_id, ambient_run_id, docs, council>>
    /\ UNCHANGED notRunVars

\* Lines 342-353: one task per member, in declared member order, then the wait.
DispatchFanout ==
    /\ pc = "loop"
    /\ idx <= Len(stages)
    /\ Kind(stages[idx]) = "fanout_members"
    /\ ~FanoutSkipped(fanout_seen + 1)
    /\ fanout_seen' = fanout_seen + 1
    /\ calls' = calls \o [m \in Members |-> NewCall(idx, m, ctx)]
    /\ ctx' = CallContext(ctx, NumMembers)
    /\ order' = <<>>
    /\ pc' = "waitFanout"
    /\ UNCHANGED <<stages, stagesToRun, idx, chairman_seen, stage1_results,
                   stage2_results, stage3_result, timeoutLog, errorLog, metadata_out, ret>>
    /\ UNCHANGED <<run_id, ambient_run_id, docs, council>>
    /\ UNCHANGED notRunVars

\* A member's call completes while the run is suspended: with content (which
\* may be None), with None, or by raising.
CallReturns(c) ==
    /\ Suspended
    /\ calls[c].who # Chair
    /\ calls[c].st = "running"
    /\ \E st \in DoneStates :
         \E content \in (IF st = "ok" THEN MemberContents ELSE {""}) :
            calls' = [calls EXCEPT ![c] = [@ EXCEPT !.st = st, !.content = content]]
    /\ order' = Append(order, c)
    /\ UNCHANGED <<stages, stagesToRun, pc, idx, fanout_seen, chairman_seen,
                   stage1_results, stage2_results, stage3_result, ctx, timeoutLog,
                   errorLog, metadata_out, ret>>
    /\ UNCHANGED <<run_id, ambient_run_id, docs, council>>
    /\ UNCHANGED notRunVars

\* Mutant: the exception of a done task is swallowed without a log event.
TaskErrors_silent(i, pending) == {}

\* Lines 372-385: the council.stage.task_error events of stage i, one for each
\* done task whose result() raises.
TaskErrors(i, pending) ==
    {<<stages[i], calls[c].who>> : c \in {d \in 1..Len(calls) :
        calls[d].stage = i /\ d \notin pending /\ calls[d].st = "raised"}}

\* Lines 353-414: asyncio.wait returns; pending tasks are cancelled and logged,
\* the results are assembled and the context is refreshed. A result whose
\* content is None makes the assembly raise TypeError (line 400 for the first
\* fanout, line 408 for the second), which nothing in Council.run catches.
FanoutResume(pending) ==
    LET mine == MemberTasks(idx)
        pendingSeq == SelectSeq(mine, LAMBDA c : c \in pending)
        rowsOf == SelectSeq(AssembleOrder(idx), LAMBDA c : Contributes(c))
        wall == IF fanout_seen = 1 THEN STAGE1_WALL_TIMEOUT_S ELSE STAGE2_WALL_TIMEOUT_S
    IN
    /\ calls' = [c \in 1..Len(calls) |->
                    IF c \in pending THEN [calls[c] EXCEPT !.st = CancelRequested(@)]
                    ELSE calls[c]]
    /\ timeoutLog' =
         IF pending # {}
           THEN Append(timeoutLog,
                       [stage_id |-> stages[idx], wall_timeout_s |-> wall,
                        pending_members |->
                            [k \in 1..Len(pendingSeq) |-> MemberName(calls[pendingSeq[k]].who)],
                        chairman_model_id |-> Absent])
           ELSE timeoutLog
    /\ errorLog' = errorLog \cup TaskErrors(idx, pending)
    /\ IF fanout_seen = 1
         THEN LET rows == [k \in 1..Len(rowsOf) |->
                             [member |-> calls[rowsOf[k]].who,
                              member_name |-> MemberName(calls[rowsOf[k]].who),
                              response |-> ContentOf(rowsOf[k])]]
              IN /\ stage1_results' = rows
                 /\ UNCHANGED stage2_results
                 /\ IF HasNullContent(rows, "response")
                      THEN /\ ctx' = Put(ctx, "responses_text", JoinRows(rows, "response"))
                           /\ pc' = "raised"
                           /\ UNCHANGED idx
                      ELSE /\ ctx' = RefreshStageContext(
                                Put(Put(ctx, "responses_text", JoinRows(rows, "response")),
                                    "stage1_text", FormatStageText(rows, "response")))
                           /\ pc' = "loop"
                           /\ idx' = idx + 1
         ELSE LET rows == [k \in 1..Len(rowsOf) |->
                             [member |-> calls[rowsOf[k]].who,
                              member_name |-> MemberName(calls[rowsOf[k]].who),
                              ranking |-> ContentOf(rowsOf[k])]]
              IN /\ UNCHANGED stage1_results
                 /\ IF HasNullContent(rows, "ranking")
                      THEN /\ stage2_results' = RowsBeforeNull(rows, "ranking")
                           /\ pc' = "raised"
                           /\ UNCHANGED <<ctx, idx>>
                      ELSE /\ stage2_results' = rows
                           /\ ctx' = RefreshStageContext(
                                Put(Put(ctx, "rankings_text", JoinRows(rows, "ranking")),
                                    "stage2_text", FormatStageText(rows, "ranking")))
                           /\ pc' = "loop"
                           /\ idx' = idx + 1
    /\ UNCHANGED <<stages, stagesToRun, fanout_seen, chairman_seen, order,
                   stage3_result, metadata_out, ret>>
    /\ UNCHANGED <<run_id, ambient_run_id, docs, council>>
    /\ UNCHANGED notRunVars

\* Every task of the stage completed before the deadline.
FanoutAllDone ==
    /\ pc = "waitFanout"
    /\ \A c \in 1..Len(calls) : calls[c].stage = idx => InDone(c)
    /\ FanoutResume({})

\* The wall-clock deadline expires with tasks still outstanding.
FanoutDeadline ==
    /\ pc = "waitFanout"
    /\ LET pending == {c \in 1..Len(calls) : calls[c].stage = idx /\ ~InDone(c)}
       IN /\ pending # {}
          /\ FanoutResume(pending)

\* Lines 416-432: the chairman's call is dispatched under asyncio.wait_for.
DispatchChairman ==
    /\ pc = "loop"
    /\ idx <= Len(stages)
    /\ Kind(stages[idx]) # "fanout_members"
    /\ ~ChairmanSkipped(chairman_seen + 1)
    /\ chairman_seen' = chairman_seen + 1
    /\ calls' = Append(calls, NewCall(idx, Chair, ctx))
    /\ ctx' = CallContext(ctx, Chair)
    /\ order' = <<>>
    /\ pc' = "waitChair"
    /\ UNCHANGED <<stages, stagesToRun, idx, fanout_seen, stage1_results,
                   stage2_results, stage3_result, timeoutLog, errorLog, metadata_out, ret>>
    /\ UNCHANGED <<run_id, ambient_run_id, docs, council>>
    /\ UNCHANGED notRunVars

\* The chairman's result record.
ChairResult(response) ==
    [model |-> ChairmanName, member_name |-> ChairmanName, response |-> response]

\* Mutant: the chairman's content is the final response as it is.
FinalResponse_raw(content) == content

\* Line 471: content or "Error: Unable to generate final synthesis.".
FinalResponse(content) ==
    IF content # "" THEN content ELSE "Error: Unable to generate final synthesis."

\* Lines 444-476: what the run does with the chairman's content.
ChairPost(content) ==
    LET stageId == stages[idx]
        parsed == ParseJson(content)
    IN
    IF stageId = "improve-prompt"
      THEN /\ ctx' = RefreshStageContext(
                 IF parsed.improved_query # Absent /\ Strip(parsed.improved_query) # ""
                   THEN Put(ctx, "improved_query", Strip(parsed.improved_query))
                   ELSE ctx)
           /\ UNCHANGED stage3_result
           /\ idx' = idx + 1
           /\ pc' = "loop"
    ELSE IF stageId = "validate-council-applicability"
      THEN IF ShouldStop(stageId, parsed)
             THEN /\ ctx' = Put(ctx, "council_applicability", parsed)
                  /\ stage3_result' =
                       ChairResult(IF parsed # EmptyObj THEN JsonDumpsIndent2(parsed)
                                   ELSE content)
                  /\ UNCHANGED idx
                  /\ pc' = "break"
             ELSE /\ ctx' = RefreshStageContext(Put(ctx, "council_applicability", parsed))
                  /\ UNCHANGED stage3_result
                  /\ idx' = idx + 1
                  /\ pc' = "loop"
    ELSE /\ stage3_result' = ChairResult(FinalResponse(content))
         /\ ctx' = RefreshStageContext(ctx)
         /\ idx' = idx + 1
         /\ pc' = "loop"

\* The chairman's call completes without raising, with content or with None,
\* and wait_for hands its result to the run.
ChairReturn ==
    /\ pc = "waitChair"
    /\ calls[Len(calls)].st = "running"
    /\ \E st \in {"ok", "none"} :
         \E content \in (IF st = "ok" THEN ChairContentsAt(stages[idx]) ELSE {""}) :
            /\ calls' = [calls EXCEPT ![Len(calls)] = [@ EXCEPT !.st = st, !.content = content]]
            /\ ChairPost(content)
    /\ UNCHANGED <<stages, stagesToRun, fanout_seen, chairman_seen, order,
                   stage1_results, stage2_results, timeoutLog, errorLog, metadata_out, ret>>
    /\ UNCHANGED <<run_id, ambient_run_id, docs, council>>
    /\ UNCHANGED notRunVars

\* Mutant: the chairman's call swallows its cancellation and goes on.
StopsWhenCancelled_never == FALSE

\* openrouter.py, lines 158-160: query_model lets the cancellation propagate,
\* so the call wait_for cancelled ends and wait_for raises TimeoutError.
StopsWhenCancelled == TRUE

\* Lines 434-442: the chairman's deadline expires; wait_for cancels the call,
\* the timeout is logged (without a pending_members list) and the run goes on
\* with r = None.
ChairTimeout ==
    /\ pc = "waitChair"
    /\ calls[Len(calls)].st = "running"
    /\ StopsWhenCancelled
    /\ calls' = [calls EXCEPT ![Len(calls)].st = "cancelled"]
    /\ timeoutLog' = Append(timeoutLog,
                            [stage_id |-> stages[idx],
                             wall_timeout_s |-> STAGE3_WALL_TIMEOUT_S,
                             pending_members |-> <<>>,
                             chairman_model_id |-> ChairmanModelId])
    /\ ChairPost("")
    /\ UNCHANGED <<stages, stagesToRun, fanout_seen, chairman_seen, order,
                   stage1_results, stage2_results, errorLog, metadata_out, ret>>
    /\ UNCHANGED <<run_id, ambient_run_id, docs, council>>
    /\ UNCHANGED notRunVars

\* The chairman's call raised: nothing in Council.run catches it.
ChairRaise ==
    /\ pc = "waitChair"
    /\ calls[Len(calls)].st = "running"
    /\ calls' = [calls EXCEPT ![Len(calls)].st = "raised"]
    /\ pc' = "raised"
    /\ UNCHANGED <<stages, stagesToRun, idx, fanout_seen, chairman_seen,
                   order, stage1_results, stage2_results, stage3_result, ctx, timeoutLog,
                   errorLog, metadata_out, ret>>
    /\ UNCHANGED <<run_id, ambient_run_id, docs, council>>
    /\ UNCHANGED notRunVars

\* Mutant: the labels are assigned from the last panel result backwards.
LabelToModel_reversed(rows) ==
    [l \in {Labels[k] : k \in 1..Len(rows)} |->
        LET k == CHOOSE j \in 1..Len(rows) : Labels[j] = l
        IN rows[Len(rows) + 1 - k].member_name]

\* Lines 479-480: labels are positional over the panel results.
LabelToModel(rows) ==
    [l \in {Labels[k] : k \in 1..Len(rows)} |->
        LET k == CHOOSE j \in 1..Len(rows) : Labels[j] = l
        IN rows[k].member_name]

\* What each entry point returns from the run's tuple (lines 560-603, 673-686).
EntryResult(e, s1, s2, s3, meta) ==
    CASE e = "stage1_collect_responses" ->
            [entry |-> e, stage1 |-> s1, stage2 |-> Absent, stage3 |-> Absent,
             metadata |-> Absent]
      [] e = "stage2_collect_rankings" ->
            [entry |-> e, stage1 |-> Absent, stage2 |-> s2, stage3 |-> Absent,
             metadata |-> meta]
      [] e = "stage3_synthesize_final" ->
            [entry |-> e, stage1 |-> Absent, stage2 |-> Absent, stage3 |-> s3,
             metadata |-> Absent]
      [] e = DirectCall ->
            [entry |-> e, stage1 |-> s1, stage2 |-> s2, stage3 |-> s3, metadata |-> meta]
      [] OTHER ->
            IF s1 = <<>>
              THEN [entry |-> e, stage1 |-> <<>>, stage2 |-> <<>>,
                    stage3 |-> [model |-> "error", member_name |-> Absent,
                                response |-> "All models failed to respond. Please try again."],
                    metadata |-> meta]
              ELSE [entry |-> e, stage1 |-> s1, stage2 |-> s2, stage3 |-> s3,
                    metadata |-> meta]

\* Lines 478-503: the stage loop has ended (exhausted, or left by the
\* short-circuit); the ambient run id is cleared and Council.run returns its
\* tuple to the caller that called it with this stage subset, which returns its
\* own result.
Finalize ==
    /\ \/ pc = "loop" /\ idx > Len(stages)
       \/ pc = "break"
    /\ metadata_out' = [label_to_model |-> LabelToModel(stage1_results)]
    /\ ambient_run_id' = NoRunId
    /\ \E e \in Entries \cup {DirectCall} :
         /\ IF e = DirectCall THEN stagesToRun \in DirectSubsets
            ELSE StagesOf(e) = stagesToRun
         /\ ret' = EntryResult(e, stage1_results, stage2_results, stage3_result,
                               metadata_out')
    /\ pc' = "returned"
    /\ order' = <<>>
    /\ UNCHANGED <<stages, stagesToRun, idx, fanout_seen, chairman_seen, calls,
                   stage1_results, stage2_results, stage3_result, ctx, timeoutLog,
                   errorLog, run_id, docs, council>>
    /\ UNCHANGED notRunVars

\* What cancelling the run's task does to the call the run awaits: wait_for
\* cancels its inner call and waits for it to stop; asyncio.wait leaves the
\* tasks it waits on alone.
OnRunCancelled(c) ==
    IF calls[c].who = Chair /\ calls[c].stage = idx /\ calls[c].st = "running"
      THEN "cancelled"
      ELSE calls[c].st

\* The task executing the run is cancelled while it is suspended at an await
\* with a call of the awaited stage outstanding.
CancelRun ==
    /\ pc \in {"waitFanout", "waitChair"}
    /\ \E c \in 1..Len(calls) : calls[c].stage = idx /\ calls[c].st = "running"
    /\ calls' = [c \in 1..Len(calls) |-> [calls[c] EXCEPT !.st = OnRunCancelled(c)]]
    /\ pc' = "cancelled"
    /\ UNCHANGED <<stages, stagesToRun, idx, fanout_seen, chairman_seen, order,
                   stage1_results, stage2_results, stage3_result, ctx, timeoutLog,
                   errorLog, metadata_out, ret>>
    /\ UNCHANGED <<run_id, ambient_run_id, docs, council>>
    /\ UNCHANGED notRunVars

(***************************************************************************)
(* The non-streaming message endpoint (backend/main.py, send_message),     *)
(* when it is the caller of run_full_council.                              *)
(***************************************************************************)
\* null in a JSON body.
JsonNull == "null"

\* The stage lists _normalize_stages accepts, as sets (main.py, lines 290-310).
RequestedStages == {{1}, {1, 2}, {1, 2, 3}}

\* Lines 246-288: the body send_message returns from what run_full_council
\* returned, the outputs of unrequested stages omitted.
SendMessageOk(requested, r) ==
    [status_code |-> 200,
     stage1 |-> IF 1 \in requested THEN r.stage1 ELSE JsonNull,
     stage2 |-> IF 2 \in requested THEN r.stage2 ELSE JsonNull,
     stage3 |-> IF 3 \in requested THEN r.stage3 ELSE JsonNull,
     label_to_model |-> IF 2 \in requested THEN r.metadata.label_to_model ELSE JsonNull]

\* An exception that leaves send_message: the server answers 500.
InternalServerError == [status_code |-> 500]

\* The request is still being served (or its task was cancelled).
NoResponse == [status_code |-> 0]

\* Lines 241-288: run_full_council returned, and the request is answered with
\* the stages it asked for; or it raised (load_council at line 676, or
\* Council.run) with an exception that carries no status code, which
\* _retry_once_on_transient re-raises (line 74) and nothing in send_message
\* catches.
SendMessageResponse(requested) ==
    IF pc = "returned" /\ ret.entry = "run_full_council"
      THEN SendMessageOk(requested, ret)
    ELSE IF pc \in {"hydration_failed", "raised"} /\ stagesToRun = StagesOf("run_full_council")
      THEN InternalServerError
    ELSE NoResponse

(***************************************************************************)
(* query_model (backend/openrouter.py).                                    *)
(***************************************************************************)
\* Mutant: status 500 is taken for transient.
TRANSIENT_with_500 == {429, 500, 502, 503}

TRANSIENT_RETRY_STATUS_CODES == {429, 502, 503}

\* The error statuses the upstream of the model answers with.
ErrorStatuses == {400, 401, 402, 403, 404, 408, 429, 500, 502, 503, 504}

\* A 2xx body that response.json() or data['choices'][0]['message'] rejects.
Malformed == "<malformed>"

ModelIds == {"openai/gpt-4o", "google/gemini-2.5-flash"}

\* What one HTTP attempt (client.post and raise_for_status) may come to.
HttpOutcomes ==
    [kind : {"status"}, status : {200}, body : MemberContents \cup ChairContents \cup {Malformed}]
    \cup [kind : {"status"}, status : ErrorStatuses, body : {""}]
    \cup [kind : {"network_error"}, status : {0}, body : {""}]

Pending == [kind |-> "pending", value |-> ""]
ReturnNone == [kind |-> "None", value |-> ""]
ReturnContent(c) == [kind |-> "content", value |-> c]
Raise(exc) == [kind |-> "raise", value |-> exc]

\* Mutant: a transient status is retried on every attempt.
ShouldRetry_always(status, att) == status \in TRANSIENT_RETRY_STATUS_CODES

\* Line 117: a transient status is retried on the first attempt only.
ShouldRetry(status, att) == status \in TRANSIENT_RETRY_STATUS_CODES /\ att = 1

\* Lines 79-130: what the body of the retry loop does with an attempt's outcome.
InnerOutcome(o, att) ==
    IF o.kind = "network_error" THEN "raise:RequestError"
    ELSE IF o.status = 200 THEN "break"
    ELSE IF o.status = 402 THEN "raise:HTTPException402"
    ELSE IF o.status \in {400, 401, 403} THEN "return:None"
    ELSE IF ShouldRetry(o.status, att) THEN "retry"
    ELSE "return:None"

\* Mutant: the outer handlers let every exception escape.
OuterExcept_reraise(exc) == [kind |-> "raise", value |-> exc]

\* Lines 159-174: the handlers of the outer try. CancelledError is re-raised;
\* every other exception, whatever raised it, is logged and becomes None.
OuterExcept(exc) == IF exc = "CancelledError" THEN Raise(exc) ELSE ReturnNone

\* Lines 132-157: the body of a successful response is decoded and returned.
Decode(body) == IF body = Malformed THEN OuterExcept("KeyError") ELSE ReturnContent(body)

\* What query_model ends with after an attempt that does not retry.
AttemptResult(o, att) ==
    LET inner == InnerOutcome(o, att)
    IN CASE inner = "break" -> Decode(o.body)
         [] inner = "return:None" -> ReturnNone
         [] inner = "raise:HTTPException402" -> OuterExcept("HTTPException402")
         [] OTHER -> OuterExcept("RequestError")

\* No function is being applied under Spec and SpecQM.
\* A payload: a scalar, a list of payloads, or a dictionary from keys to
\* payloads (in insertion order). Every node has the same three fields; the
\* items of a list have the empty key.
JStr(text) == [t |-> "str", v |-> text, items |-> <<>>]
JNone == [t |-> "None", v |-> "", items |-> <<>>]
JItem(key, val) == [k |-> key, val |-> val]
JList(vals) ==
    [t |-> "list", v |-> "", items |-> [i \in 1..Len(vals) |-> JItem("", vals[i])]]
JDict(pairs) == [t |-> "dict", v |-> "", items |-> pairs]

\* No streaming request is being served.
GenIdle ==
    /\ gen_pc = "idle"
    /\ req_stages = {}
    /\ is_first_message = FALSE
    /\ sse = <<>>
    /\ stored = <<>>
    /\ g_stage1_results = JNone
    /\ g_stage2_results = JNone
    /\ g_label_to_model = JNone
    /\ g_stage3_result = JNone
    /\ gen_runs = <<>>

FnIdle ==
    /\ fnName = "idle"
    /\ fnArg = <<>>
    /\ fnDone = FALSE
    /\ fnRes = <<>>

\* The run is not executing under SpecQM and SpecFn.
RunIdle ==
    /\ stages = <<>>
    /\ stagesToRun = {}
    /\ pc = "idle"
    /\ idx = 0
    /\ fanout_seen = 0
    /\ chairman_seen = 0
    /\ calls = <<>>
    /\ order = <<>>
    /\ stage1_results = <<>>
    /\ stage2_results = <<>>
    /\ stage3_result = EmptyResult
    /\ ctx = <<>>
    /\ timeoutLog = <<>>
    /\ errorLog = {}
    /\ metadata_out = <<>>
    /\ ret = <<>>
    /\ run_id = NoRunId
    /\ ambient_run_id = NoRunId
    /\ docs = <<>>
    /\ council = NotLoaded

InitQM ==
    /\ qmodel \in ModelIds
    /\ qpc = "start"
    /\ attempt = 0
    /\ httpLog = <<>>
    /\ qresult = Pending
    /\ qlog = <<>>
    /\ RunIdle
    /\ FnIdle
    /\ GenIdle

\* Lines 65-78: the client is opened, the start is logged, the loop is entered.
QMStart ==
    /\ qpc = "start"
    /\ qpc' = "post"
    /\ attempt' = 1
    /\ qlog' = Append(qlog, "openrouter.query_model.start")
    /\ UNCHANGED <<qmodel, httpLog, qresult>>
    /\ UNCHANGED notQmVars

\* Lines 79-157: one HTTP attempt and what the loop makes of its outcome.
QMAttempt(o) ==
    /\ qpc = "post"
    /\ httpLog' = Append(httpLog, o)
    /\ IF InnerOutcome(o, attempt) = "retry"
         THEN /\ qpc' = "sleep"
              /\ qlog' = qlog \o <<"openrouter.query_model", "openrouter.query_model.retry.transient">>
              /\ UNCHANGED qresult
         ELSE /\ qpc' = "done"
              /\ qresult' = AttemptResult(o, attempt)
              /\ qlog' = Append(qlog, "openrouter.query_model")
    /\ UNCHANGED <<qmodel, attempt>>
    /\ UNCHANGED notQmVars

\* Lines 126-127 and 78: asyncio.sleep(0) returns and the loop goes round.
QMRetry ==
    /\ qpc = "sleep"
    /\ qpc' = "post"
    /\ attempt' = attempt + 1
    /\ UNCHANGED <<qmodel, httpLog, qresult, qlog>>
    /\ UNCHANGED notQmVars

\* Lines 88-98: the call is cancelled while the request is in flight.
QMCancelInPost ==
    /\ qpc = "post"
    /\ qpc' = "done"
    /\ qresult' = OuterExcept("CancelledError")
    /\ qlog' = Append(qlog, "openrouter.query_model.cancelled")
    /\ UNCHANGED <<qmodel, attempt, httpLog>>
    /\ UNCHANGED notQmVars

\* Line 126: the call is cancelled while it yields before the retry.
QMCancelInSleep ==
    /\ qpc = "sleep"
    /\ qpc' = "done"
    /\ qresult' = OuterExcept("CancelledError")
    /\ UNCHANGED <<qmodel, attempt, httpLog, qlog>>
    /\ UNCHANGED notQmVars

NextQM ==
    \/ QMStart
    \/ \E o \in HttpOutcomes : QMAttempt(o)
    \/ QMRetry
    \/ QMCancelInPost
    \/ QMCancelInSleep

SpecQM == InitQM /\ [][NextQM]_vars

RunNext ==
    \/ Hydrate
    \/ RunStart
    \/ SkipStage
    \/ DispatchFanout
    \/ \E c \in 1..Len(calls) : CallReturns(c)
    \/ FanoutAllDone
    \/ FanoutDeadline
    \/ DispatchChairman
    \/ ChairReturn
    \/ ChairTimeout
    \/ ChairRaise
    \/ Finalize
    \/ CancelRun

\* query_model is not running under Spec.
QMIdle ==
    /\ qmodel = Absent
    /\ qpc = "idle"
    /\ attempt = 0
    /\ httpLog = <<>>
    /\ qresult = Pending
    /\ qlog = <<>>

Init == InitRun /\ QMIdle /\ FnIdle /\ GenIdle

\* Council.run called on a council with later stages, whose references all
\* resolve, with a stage subset that leaves some stage number out.
InitLate ==
    /\ stages \in LateStageLists
    /\ stagesToRun \in LateSubsets
    /\ run_id = NoRunId
    /\ ambient_run_id = NoRunId
    /\ docs = [r \in Refs(Members, stages) |-> "ok"]
    /\ council = NotLoaded
    /\ pc = "hydrate"
    /\ idx = 1
    /\ fanout_seen = 0
    /\ chairman_seen = 0
    /\ calls = <<>>
    /\ order = <<>>
    /\ stage1_results = <<>>
    /\ stage2_results = <<>>
    /\ stage3_result = EmptyResult
    /\ ctx = <<>>
    /\ timeoutLog = <<>>
    /\ errorLog = {}
    /\ metadata_out = <<>>
    /\ ret = <<>>
    /\ QMIdle /\ FnIdle /\ GenIdle

Next == RunNext

Spec == Init /\ [][Next]_vars

\* The steps the run takes by itself: the statements between two awaits, which
\* the event loop executes once the run is resumed, and the expiry of the
\* deadline of asyncio.wait (line 353) or asyncio.wait_for (line 430), which
\* resumes it. The completion of a call is not among them.
RunProgress ==
    \/ Hydrate
    \/ RunStart
    \/ SkipStage
    \/ DispatchFanout
    \/ FanoutAllDone
    \/ FanoutDeadline
    \/ DispatchChairman
    \/ ChairTimeout
    \/ Finalize

\* Spec with the run scheduled fairly and its deadlines expiring; no call is
\* required ever to complete.
SpecLive == Spec /\ WF_vars(RunProgress)

\* Council.run on a council with later stages.
SpecLate == InitLate /\ [][Next]_vars

(***************************************************************************)
(* Functions of the backend, applied once to arguments drawn from bounded  *)
(* sets (SpecFn).                                                          *)
(***************************************************************************)
\* The longest prompt template of the model, in parts.
MaxParts == 2

\* Every sequence over S of length at most n.
SeqsUpTo(S, n) == UNION {[1..k -> S] : k \in 0..n}

\* ---- _format_template and Council.render_stage_prompt ----
\* Context keys a template may reference, and the values they may hold.
CtxKeys == {"user_query", "stage1_text", "improved_query"}
CtxValues == {"", "text"}

\* The context mappings of the model: some keys are absent, some hold "".
Contexts == UNION {[K -> CtxValues] : K \in SUBSET CtxKeys}

\* The parts string.Formatter().parse cuts a template into: literal text, a
\* replacement field {name}, or a brace that matches nothing.
Literal == [type |-> "literal", name |-> ""]
Field(k) == [type |-> "field", name |-> k]
Unmatched == [type |-> "unmatched_brace", name |-> ""]
Parts == {Literal, Unmatched} \cup {Field(k) : k \in CtxKeys}

\* A template is the sequence of its parts; <<>> is the blank template.
Templates == SeqsUpTo(Parts, MaxParts)

\* The stages whose prompt is rendered.
RenderStages ==
    [id : {"peer-review", "synthesize-output"}, prompt : Templates,
     inputs_required : SUBSET CtxKeys]

\* A rendered prompt, and the errors rendering raises.
Rendered(prompt) ==
    [kind |-> "ok", cause |-> "", missing |-> {}, stage_id |-> Absent, prompt |-> prompt]
RenderError(kind, cause, missing, stage_id) ==
    [kind |-> kind, cause |-> cause, missing |-> missing, stage_id |-> stage_id,
     prompt |-> <<>>]

\* Lines 163-178: formatter.parse raises ValueError on a malformed template.
Malformed_template(template) ==
    \E i \in 1..Len(template) : template[i].type = "unmatched_brace"

\* Lines 164-171: the root names the template references.
Referenced(template) ==
    {template[i].name : i \in {j \in 1..Len(template) : template[j].type = "field"}}

\* Mutant: the preflight finds nothing missing.
MissingKeys_none(template, context) == {}

\* Line 180: the referenced names that are not keys of the context.
MissingKeys(template, context) ==
    {k \in Referenced(template) : k \notin DOMAIN context}

\* Lines 194-209: template.format_map(context); a KeyError it raises is
\* re-raised naming the key.
FormatMap(template, context, stage_id) ==
    LET bad == {i \in 1..Len(template) :
                   template[i].type = "field" /\ template[i].name \notin DOMAIN context}
    IN IF bad # {}
         THEN LET i == CHOOSE j \in bad : \A k \in bad : j <= k
              IN RenderError("KeyError", "template_key_error", {template[i].name}, stage_id)
         ELSE Rendered([i \in 1..Len(template) |->
                           IF template[i].type = "field" THEN context[template[i].name]
                           ELSE "literal"])

\* _format_template (lines 137-209).
FormatTemplate(template, context, stage_id) ==
    IF template = <<>> THEN RenderError("ValueError", "empty_template", {}, Absent)
    ELSE IF Malformed_template(template)
      THEN RenderError("ValueError", "malformed_template", {}, stage_id)
    ELSE IF MissingKeys(template, context) # {}
      THEN RenderError("KeyError", "missing_keys", MissingKeys(template, context), stage_id)
    ELSE FormatMap(template, context, stage_id)

\* Council.render_stage_prompt (lines 224-242).
RenderStagePrompt(stage, context) ==
    IF stage.prompt = <<>> THEN RenderError("ValueError", "no_prompt", {}, stage.id)
    ELSE FormatTemplate(stage.prompt, context, stage.id)

\* Lines 348-351 and 425-431: the prompt of a call is rendered, and the call is
\* dispatched when rendering returned.
StageCall(stage, context) ==
    LET r == RenderStagePrompt(stage, context)
    IN [rendering |-> r, dispatched |-> r.kind = "ok"]

InitFnStageCall ==
    /\ fnName = "stage_call"
    /\ fnArg \in [stage : RenderStages, context : Contexts]

FnStageCall ==
    /\ fnName = "stage_call"
    /\ ~fnDone
    /\ fnDone' = TRUE
    /\ fnRes' = StageCall(fnArg.stage, fnArg.context)
    /\ UNCHANGED <<fnName, fnArg>>
    /\ UNCHANGED notFnVars

\* ---- parse_ranking_from_text ----
\* The longest ranking text of the model, in tokens.
MaxTokens == 4

\* The labels a ranking text may mention.
RankLabels == {"Response A", "Response B", "Response C"}

\* A ranking text is the sequence of its tokens: the marker "FINAL RANKING:",
\* a match of \d+\.\s*Response [A-Z], a match of Response [A-Z] that no number
\* precedes, or text that matches nothing.
Marker == [type |-> "marker", label |-> ""]
OtherText == [type |-> "other", label |-> ""]
Numbered(l) == [type |-> "numbered", label |-> l]
Bare(l) == [type |-> "bare", label |-> l]
Tokens == {Marker, OtherText} \cup {Numbered(l) : l \in RankLabels} \cup {Bare(l) : l \in RankLabels}

RankingTexts == SeqsUpTo(Tokens, MaxTokens)

\* str.split("FINAL RANKING:"): the pieces of the text between the markers.
RECURSIVE SplitOnMarker(_)
SplitOnMarker(text) ==
    LET marks == {i \in 1..Len(text) : text[i] = Marker}
    IN IF marks = {} THEN <<text>>
       ELSE LET i == CHOOSE j \in marks : \A k \in marks : j <= k
            IN <<SubSeq(text, 1, i - 1)>> \o SplitOnMarker(SubSeq(text, i + 1, Len(text)))

\* re.findall(r"\d+\.\s*Response [A-Z]", section), then the label of each match.
NumberedMatches(section) ==
    LET ms == SelectSeq(section, LAMBDA t : t.type = "numbered")
    IN [i \in 1..Len(ms) |-> ms[i].label]

\* re.findall(r"Response [A-Z]", section): numbered or not.
ResponseMatches(section) ==
    LET ms == SelectSeq(section, LAMBDA t : t.type \in {"numbered", "bare"})
    IN [i \in 1..Len(ms) |-> ms[i].label]

\* parse_ranking_from_text (lines 606-622).
ParseRankingFromText(ranking_text) ==
    IF \E i \in 1..Len(ranking_text) : ranking_text[i] = Marker
      THEN LET parts == SplitOnMarker(ranking_text)
               ranking_section == parts[2]
           IN IF NumberedMatches(ranking_section) # <<>>
                THEN NumberedMatches(ranking_section)
                ELSE ResponseMatches(ranking_section)
      ELSE ResponseMatches(ranking_text)

InitFnParseRanking ==
    /\ fnName = "parse_ranking_from_text"
    /\ fnArg \in RankingTexts

FnParseRanking ==
    /\ fnName = "parse_ranking_from_text"
    /\ ~fnDone
    /\ fnDone' = TRUE
    /\ fnRes' = ParseRankingFromText(fnArg)
    /\ UNCHANGED <<fnName, fnArg>>
    /\ UNCHANGED notFnVars

\* ---- calculate_aggregate_rankings ----
\* The ranking texts of the judges: the marker, then one numbered line per
\* label of a list of at most as many labels as there are.
JudgeTexts ==
    {<<Marker>> \o [i \in 1..Len(l) |-> Numbered(l[i])] :
        l \in SeqsUpTo(RankLabels, Cardinality(RankLabels))}

\* stage2_results: one row per judge, at most one judge per member.
JudgeRows == SeqsUpTo([ranking : JudgeTexts], NumMembers)

\* label_to_model: every label known, or the last label unknown.
LabelMaps ==
    { [l \in RankLabels |->
          CASE l = "Response A" -> "X" [] l = "Response B" -> "Y" [] OTHER -> "Z"],
      [l \in {"Response A", "Response B"} |-> IF l = "Response A" THEN "X" ELSE "Y"] }

\* Lines 631-636: every position a judge gives to a label the map knows, in the
\* order the loop meets them.
RECURSIVE Attributions(_, _)
Attributions(rows, label_to_model) ==
    IF rows = <<>> THEN <<>>
    ELSE LET parsed_ranking == ParseRankingFromText(Head(rows).ranking)
             known == SelectSeq([p \in 1..Len(parsed_ranking) |->
                                    [label |-> parsed_ranking[p], position |-> p]],
                                LAMBDA h : h.label \in DOMAIN label_to_model)
         IN [i \in 1..Len(known) |->
                [model |-> label_to_model[known[i].label], position |-> known[i].position]]
            \o Attributions(Tail(rows), label_to_model)

\* The keys of model_positions, in insertion order.
EncounterOrder(pairs) ==
    LET firsts == SelectSeq([i \in 1..Len(pairs) |-> i],
                            LAMBDA i : \A j \in 1..(i - 1) : pairs[j].model # pairs[i].model)
    IN [k \in 1..Len(firsts) |-> pairs[firsts[k]].model]

RECURSIVE SumPositions(_)
SumPositions(pairs) ==
    IF pairs = <<>> THEN 0 ELSE Head(pairs).position + SumPositions(Tail(pairs))

\* round(total / n, 2), in hundredths: the nearest hundredth, and the even one
\* when total / n lies exactly halfway (which needs n >= 8).
Round2(total, n) ==
    LET q == (100 * total) \div n
        r == (100 * total) % n
    IN IF 2 * r > n THEN q + 1
       ELSE IF 2 * r < n THEN q
       ELSE IF q % 2 = 0 THEN q ELSE q + 1

\* Lines 638-646: one entry per key of model_positions.
AggregateEntries(pairs) ==
    LET models == EncounterOrder(pairs)
    IN [k \in 1..Len(models) |->
           LET positions == SelectSeq(pairs, LAMBDA h : h.model = models[k])
           IN [model |-> models[k],
               average_rank |-> Round2(SumPositions(positions), Len(positions)),
               rankings_count |-> Len(positions)]]

\* Mutant: the entries are left in encounter order.
SortByAverageRank_unsorted(entries) == entries

\* Line 648: list.sort(key=average_rank), a stable sort.
RECURSIVE SortByAverageRank(_)
SortByAverageRank(entries) ==
    IF entries = <<>> THEN <<>>
    ELSE LET front == SortByAverageRank(SubSeq(entries, 1, Len(entries) - 1))
             e == entries[Len(entries)]
             k == Cardinality({i \in 1..Len(front) : front[i].average_rank <= e.average_rank})
         IN SubSeq(front, 1, k) \o <<e>> \o SubSeq(front, k + 1, Len(front))

\* calculate_aggregate_rankings (lines 625-649).
CalculateAggregateRankings(stage2_rows, label_to_model) ==
    SortByAverageRank(AggregateEntries(Attributions(stage2_rows, label_to_model)))

InitFnAggregate ==
    /\ fnName = "calculate_aggregate_rankings"
    /\ fnArg \in [stage2_results : JudgeRows, label_to_model : LabelMaps]

FnAggregate ==
    /\ fnName = "calculate_aggregate_rankings"
    /\ ~fnDone
    /\ fnDone' = TRUE
    /\ fnRes' = CalculateAggregateRankings(fnArg.stage2_results, fnArg.label_to_model)
    /\ UNCHANGED <<fnName, fnArg>>
    /\ UNCHANGED notFnVars

\* ---- _normalize_stages ----
\* The longest stages list of a request of the model.
MaxStagesLen == 3

\* No stages given (None); the values a request may list.
NoStages == [given |-> FALSE, list |-> <<>>]
StageValues == 0..4
StagesArgs ==
    {NoStages} \cup {[given |-> TRUE, list |-> l] : l \in SeqsUpTo(StageValues, MaxStagesLen)}

\* sorted(set(...)): the elements in ascending order, each once.
SortedSet(S) ==
    [i \in 1..Cardinality(S) |-> CHOOSE x \in S : Cardinality({y \in S : y < x}) = i - 1]

Accepted(normalized) == [kind |-> "ok", status_code |-> 200, stages |-> normalized]
Rejected400 == [kind |-> "HTTPException", status_code |-> 400, stages |-> <<>>]

\* Mutant: no dependency between the stages is enforced.
DependenciesMet_any(S) == TRUE

\* Lines 304-308: stage 2 requires stage 1; stage 3 requires stages 1 and 2.
DependenciesMet(S) ==
    /\ ~(2 \in S /\ 1 \notin S)
    /\ ~(3 \in S /\ (1 \notin S \/ 2 \notin S))

\* _normalize_stages (main.py, lines 290-310).
NormalizeStages(arg) ==
    IF ~arg.given THEN Accepted(<<1, 2, 3>>)
    ELSE IF arg.list = <<>> THEN Accepted(<<1, 2, 3>>)
    ELSE LET S == {arg.list[i] : i \in 1..Len(arg.list)}
         IN IF \E x \in S : x \notin {1, 2, 3} THEN Rejected400
            ELSE IF ~DependenciesMet(S) THEN Rejected400
            ELSE Accepted(SortedSet(S))

InitFnNormalizeStages ==
    /\ fnName = "_normalize_stages"
    /\ fnArg \in StagesArgs

FnNormalizeStages ==
    /\ fnName = "_normalize_stages"
    /\ ~fnDone
    /\ fnDone' = TRUE
    /\ fnRes' = NormalizeStages(fnArg)
    /\ UNCHANGED <<fnName, fnArg>>
    /\ UNCHANGED notFnVars

\* ---- log_event (backend/observability.py) ----
\* What an operation of the environment may come to.
IoOutcomes == {"ok", "raises"}

\* The events logged: with or without a run_id of their own, with or without
\* a conversation_id; the ambient run id at the time of the call; whether
\* json.dumps accepts the payload; and what the environment makes of creating
\* the log directory, of appending to the log file, and of the two calls of
\* logger.info.
LogEventArgs ==
    [run_id : {NoRunId, CallerRunId}, ambient : {NoRunId, GeneratedRunId},
     conversation_id : {Absent, "conv-1"}, serializable : BOOLEAN,
     mkdir : IoOutcomes, write : IoOutcomes, info : IoOutcomes, info_fallback : IoOutcomes]

\* Line 99: event.run_id or the ambient run id or event.conversation_id.
ResolveRunId(a) ==
    IF a.run_id # NoRunId THEN a.run_id
    ELSE IF a.ambient # NoRunId THEN a.ambient
    ELSE IF a.conversation_id # Absent THEN a.conversation_id
    ELSE NoRunId

\* What log_event ends with, and what it wrote.
LogReturned(file_written, emitted) ==
    [kind |-> "returned", exc |-> "", file_written |-> file_written, emitted |-> emitted]
LogRaised(exc, file_written) ==
    [kind |-> "raised", exc |-> exc, file_written |-> file_written, emitted |-> "nothing"]

\* _log_file_for_run (lines 72-78): no path without a run id; otherwise the
\* directory is created, which may raise.
MakeLogDir(a) == IF ResolveRunId(a) = NoRunId THEN "no_path" ELSE a.mkdir

\* Lines 104-109: the line is appended to the file; a failure is swallowed.
FileWritten(a) == ResolveRunId(a) # NoRunId /\ a.serializable /\ a.write = "ok"

\* Lines 111-115: the line is emitted as JSON; on a failure, as str(payload),
\* outside any handler.
Emit(a, file_written) ==
    IF a.serializable /\ a.info = "ok" THEN LogReturned(file_written, "json")
    ELSE IF a.info_fallback = "ok" THEN LogReturned(file_written, "str")
    ELSE LogRaised("logger.info", file_written)

\* log_event (lines 81-115).
LogEvent(a) ==
    IF MakeLogDir(a) = "raises" THEN LogRaised("mkdir", FALSE)
    ELSE Emit(a, FileWritten(a))

InitFnLogEvent ==
    /\ fnName = "log_event"
    /\ fnArg \in LogEventArgs

FnLogEvent ==
    /\ fnName = "log_event"
    /\ ~fnDone
    /\ fnDone' = TRUE
    /\ fnRes' = LogEvent(fnArg)
    /\ UNCHANGED <<fnName, fnArg>>
    /\ UNCHANGED notFnVars

\* ---- load_council ----
\* The member lists of a council definition: any list of member ids, the
\* empty one and those that name a member twice included.
MemberLists == SeqsUpTo(Members, NumMembers)

\* The council definitions load_council is applied to.
CouncilDefs ==
    {[members |-> l, stages |-> sl, docs |-> d] :
        l \in MemberLists,
        sl \in {<<"delegate-prompt", "peer-review", "synthesize-output">>},
        d \in DocStates(Refs(Members, <<"delegate-prompt", "peer-review", "synthesize-output">>))}

InitFnLoadCouncil ==
    /\ fnName = "load_council"
    /\ fnArg \in CouncilDefs

FnLoadCouncil ==
    /\ fnName = "load_council"
    /\ ~fnDone
    /\ fnDone' = TRUE
    /\ fnRes' = LoadCouncil(fnArg)
    /\ UNCHANGED <<fnName, fnArg>>
    /\ UNCHANGED notFnVars

(***************************************************************************)
(* Stages whose template is a structured parts list ([[prompt.parts]] in   *)
(* the stage file's front matter).                                         *)
(***************************************************************************)
\* One part of a parts list. A markdown part that reads the context is
\* labelled; an instructions part carries its own content.
PromptParts ==
    {[source |-> src, required |-> req, render_style |-> style,
      label |-> IF style = "markdown" /\ src # "instructions" THEN "Panel" ELSE "",
      content |-> IF src = "instructions" THEN "do this" ELSE ""] :
        src \in {"instructions", "stage1_text"}, req \in BOOLEAN,
        style \in {"markdown", "text", "json"}}

\* The non-empty parts lists.
PartsLists == SeqsUpTo(PromptParts, MaxParts) \ {<<>>}

\* metadata.py, lines 199-204: a stage file with a prompt table is loaded with
\* the table as template_prompt and the file's body as prompt.
PartsStages ==
    [id : {"peer-review"}, prompt : {<<>>, <<Literal>>}, inputs_required : {{}},
     template_prompt : PartsLists]

\* metadata.py, lines 497-501: the content of a part (None when the context
\* has no such key).
PartContent(part, context) ==
    IF part.source = "instructions" THEN part.content
    ELSE IF part.source \in DOMAIN context THEN context[part.source]
    ELSE Absent

\* metadata.py, lines 502-505: a required part without content.
PartMissing(part, context) ==
    part.required /\ PartContent(part, context) \in {Absent, ""}

\* metadata.py, lines 506-518: the part wrapped according to its render style,
\* without the newline that ends it (<fence> stands for the three backquotes).
WrapPart(part, context) ==
    LET c == PartContent(part, context)
        content == IF c = Absent THEN "" ELSE c
    IN CASE part.render_style = "json" ->
              (CASE content = "text" -> "<fence>json\ntext\n<fence>"
                 [] content = "do this" -> "<fence>json\ndo this\n<fence>"
                 [] OTHER -> "<fence>json\n\n<fence>")
         [] part.render_style = "markdown" /\ part.label # "" ->
              (CASE content = "text" -> "### Panel\ntext"
                 [] content = "do this" -> "### Panel\ndo this"
                 [] OTHER -> "### Panel\n")
         [] OTHER -> content

\* str.strip() of the joined parts: blank lines at either end are dropped, and
\* so is the newline a heading without content ends with.
StripJoined(pieces) ==
    LET blank(i) == pieces[i] = ""
        kept == {i \in 1..Len(pieces) : ~blank(i)}
    IN IF kept = {} THEN <<>>
       ELSE LET lo == CHOOSE i \in kept : \A j \in kept : i <= j
                hi == CHOOSE i \in kept : \A j \in kept : j <= i
            IN [k \in 1..(hi - lo + 1) |->
                   IF k = hi - lo + 1 /\ pieces[hi] = "### Panel\n" THEN "### Panel"
                   ELSE pieces[lo + k - 1]]

\* metadata.py, lines 486-520: the parts renderer.
RenderParts(stage, context) ==
    LET parts == stage.template_prompt
        bad == {i \in 1..Len(parts) : PartMissing(parts[i], context)}
    IN IF bad # {}
         THEN LET i == CHOOSE j \in bad : \A k \in bad : j <= k
              IN RenderError("KeyError", "missing_part", {parts[i].source}, stage.id)
         ELSE Rendered(StripJoined([i \in 1..Len(parts) |-> WrapPart(parts[i], context)]))

InitFnPartsStageCall ==
    /\ fnName = "parts_stage_call"
    /\ fnArg \in [stage : PartsStages, context : Contexts]

\* council.py, lines 348-351: Council.run renders the prompt of a stage that
\* has a parts list with its own render_stage_prompt, and dispatches the call
\* when rendering returned.
FnPartsStageCall ==
    /\ fnName = "parts_stage_call"
    /\ ~fnDone
    /\ fnDone' = TRUE
    /\ fnRes' = StageCall(fnArg.stage, fnArg.context)
    /\ UNCHANGED <<fnName, fnArg>>
    /\ UNCHANGED notFnVars

(***************************************************************************)
(* _sanitize_for_conversation (backend/main.py) and the payloads it is     *)
(* applied to.                                                             *)
(***************************************************************************)
\* Mutant: persona keys are kept.
StrippedKeys_idsOnly == {"model_id", "chairman_model_id"}

\* Line 100: the keys the function drops.
StrippedKeys == {"model_id", "chairman_model_id", "persona", "chairman_persona"}

\* Lines 88-105.
RECURSIVE SanitizeForConversation(_)
SanitizeForConversation(payload) ==
    IF payload.t = "list"
      THEN [payload EXCEPT !.items =
               [i \in 1..Len(payload.items) |->
                   JItem("", SanitizeForConversation(payload.items[i].val))]]
    ELSE IF payload.t = "dict"
      THEN LET kept == SelectSeq(payload.items, LAMBDA it : it.k \notin StrippedKeys)
           IN [payload EXCEPT !.items =
                  [i \in 1..Len(kept) |->
                      JItem(kept[i].k, SanitizeForConversation(kept[i].val))]]
    ELSE payload

\* The payloads the function is applied to: scalars, and lists and dictionaries
\* of at most MaxItems items, nested up to three deep.
MaxItems == 2
PayloadKeys == {"model_id", "chairman_model_id", "persona", "chairman_persona", "response"}

\* Lines 388-395 of council.py: the row of a member in a fanout stage's
\* results; a ranking row also has the parsed ranking (line 405).
ResultRow(m, field) ==
    JDict(<<JItem("model", JStr(MemberName(m))),
            JItem("member_name", JStr(MemberName(m))),
            JItem("persona", JStr("persona name")),
            JItem(field, JStr("x")),
            JItem("run_id", JStr(GeneratedRunId)),
            JItem("model_id", JStr("provider/model"))>>
          \o (IF field = "ranking" THEN <<JItem("parsed_ranking", JList(<<>>))>> ELSE <<>>))

\* Lines 467-474 of council.py: the chairman's result.
ChairRow(text) ==
    JDict(<<JItem("model", JStr(ChairmanName)),
            JItem("member_name", JStr(ChairmanName)),
            JItem("persona", JStr("persona name")),
            JItem("response", JStr(text)),
            JItem("model_id", JStr(ChairmanModelId)),
            JItem("chairman_model_id", JStr(ChairmanModelId))>>)

\* The rows of the members of a list, and the label map over a panel.
ResultRows(members, field) ==
    JList([i \in 1..Len(members) |-> ResultRow(members[i], field)])
LabelMap(panel) ==
    JDict([i \in 1..Len(panel) |-> JItem(Labels[i], JStr(MemberName(panel[i])))])

\* The members that answered in a stage: a subsequence of the member list.
Responders ==
    {l \in SeqsUpTo(Members, NumMembers) : \A i, j \in 1..Len(l) : i < j => l[i] < l[j]}

\* Lines 283-288 of main.py: the payload send_message sanitizes, for a run in
\* which the given members answered the panel and the ranking stage.
SendMessagePayload(panel, judges) ==
    JDict(<<JItem("stage1", ResultRows(panel, "response")),
            JItem("stage2", ResultRows(judges, "ranking")),
            JItem("stage3", ChairRow("final")),
            JItem("metadata",
                  JDict(<<JItem("label_to_model", LabelMap(panel)),
                          JItem("aggregate_rankings", JList(<<>>)),
                          JItem("run_id", JStr(GeneratedRunId)),
                          JItem("council_id", JStr("default"))>>))>>)

\* No key occurs twice in the key sequence of a dictionary.
NoKeyTwice(ks) == \A i, j \in 1..Len(ks) : i # j => ks[i] # ks[j]

\* The payloads one level deep.
Payloads0 == {JStr("x")}
Payloads1 ==
    Payloads0 \cup {JList(<<q>>) : q \in Payloads0}
              \cup {JDict(<<JItem(key, q)>>) : key \in PayloadKeys, q \in Payloads0}

\* A payload as it is, as the only item of a list, or as the response of a
\* dictionary.
Wraps == {"bare", "list", "dict"}
Wrapped(wrap, payload) ==
    CASE wrap = "list" -> JList(<<payload>>)
      [] wrap = "dict" -> JDict(<<JItem("response", payload)>>)
      [] OTHER -> payload

InitFnSanitize ==
    /\ fnName = "_sanitize_for_conversation"
    /\ \/ fnArg \in Payloads1
       \/ \E panel \in Responders : \E judges \in Responders :
             fnArg = SendMessagePayload(panel, judges)
       \/ \E n \in 0..MaxItems : \E l \in [1..n -> Payloads1] : \E wrap \in Wraps :
             \/ fnArg = Wrapped(wrap, JList(l))
             \/ \E ks \in [1..n -> PayloadKeys] :
                   /\ NoKeyTwice(ks)
                   /\ fnArg = Wrapped(wrap, JDict([i \in 1..n |-> JItem(ks[i], l[i])]))

FnSanitize ==
    /\ fnName = "_sanitize_for_conversation"
    /\ ~fnDone
    /\ fnDone' = TRUE
    /\ fnRes' = SanitizeForConversation(fnArg)
    /\ UNCHANGED <<fnName, fnArg>>
    /\ UNCHANGED notFnVars

(***************************************************************************)
(* _retry_once_on_transient (backend/main.py).                             *)
(***************************************************************************)
\* An attribute an exception does not have, or that is not an int.
NoCode == 0

NO_RETRY_STATUS_CODES == {400, 401, 403, 402}

\* Mutant: 429 is not taken for transient.
TRANSIENT_main_without_429 == {502, 503}

\* TRANSIENT_RETRY_STATUS_CODES of main.py (line 24).
TRANSIENT_RETRY_STATUS_CODES_main == {429, 502, 503}

\* The values of the attributes _extract_status_code looks at.
CodeValues == {NoCode, 400, 401, 402, 403, 429, 500, 502, 503}

\* An exception by the three attributes that may carry a status: status_code
\* (FastAPI), response.status_code (httpx) and status (aiohttp).
NoCodes == [status_code |-> NoCode, response_status_code |-> NoCode, status |-> NoCode]
ErrorCodes == [status_code : CodeValues, response_status_code : CodeValues, status : CodeValues]

\* _extract_status_code: the first of the three attributes that is an int.
ExtractStatusCode(codes) ==
    IF codes.status_code # NoCode THEN codes.status_code
    ELSE IF codes.response_status_code # NoCode THEN codes.response_status_code
    ELSE codes.status

\* The outcomes of one invocation of the wrapped operation: a result or an
\* error, each told apart by the invocation it comes from.
Result(tag) == [kind |-> "result", tag |-> tag, codes |-> NoCodes]
Error(tag, codes) == [kind |-> "error", tag |-> tag, codes |-> codes]

FirstOutcomes == {Result("result-1")} \cup {Error("error-1", c) : c \in ErrorCodes}
SecondOutcomes ==
    {Result("result-2")}
    \cup {Error("error-2", [NoCodes EXCEPT !.status_code = v]) : v \in {NoCode, 403, 429}}

\* What happens between the two invocations: log_event returns or raises, and
\* the task is or is not cancelled while it yields at asyncio.sleep(0).
RetryArgs ==
    [first : FirstOutcomes, second : SecondOutcomes,
     log : {"returns", "raises"}, cancelled : BOOLEAN]

\* Lines 50-74: the number of invocations of fn and the outcome of the wrapper.
RetryOnceOnTransient(arg) ==
    IF arg.first.kind = "result"
      THEN [invocations |-> 1, outcome |-> arg.first]
    ELSE LET status == ExtractStatusCode(arg.first.codes)
         IN IF status \in NO_RETRY_STATUS_CODES
              THEN [invocations |-> 1, outcome |-> arg.first]
            ELSE IF status \in TRANSIENT_RETRY_STATUS_CODES_main
              THEN IF arg.log = "raises"
                     THEN [invocations |-> 1, outcome |-> Error("log_event error", NoCodes)]
                   ELSE IF arg.cancelled
                     THEN [invocations |-> 1, outcome |-> Error("CancelledError", NoCodes)]
                   ELSE [invocations |-> 2, outcome |-> arg.second]
            ELSE [invocations |-> 1, outcome |-> arg.first]

InitFnRetryOnce ==
    /\ fnName = "_retry_once_on_transient"
    /\ fnArg \in RetryArgs

FnRetryOnce ==
    /\ fnName = "_retry_once_on_transient"
    /\ ~fnDone
    /\ fnDone' = TRUE
    /\ fnRes' = RetryOnceOnTransient(fnArg)
    /\ UNCHANGED <<fnName, fnArg>>
    /\ UNCHANGED notFnVars

InitFn ==
    /\ \/ InitFnStageCall
       \/ InitFnParseRanking
       \/ InitFnAggregate
       \/ InitFnNormalizeStages
       \/ InitFnLogEvent
       \/ InitFnLoadCouncil
       \/ InitFnPartsStageCall
       \/ InitFnRetryOnce
       \/ InitFnSanitize
    /\ fnDone = FALSE
    /\ fnRes = <<>>
    /\ RunIdle
    /\ QMIdle
    /\ GenIdle

NextFn ==
    \/ FnStageCall
    \/ FnParseRanking
    \/ FnAggregate
    \/ FnNormalizeStages
    \/ FnLogEvent
    \/ FnLoadCouncil
    \/ FnPartsStageCall
    \/ FnRetryOnce
    \/ FnSanitize

SpecFn == InitFn /\ [][NextFn]_vars

(***************************************************************************)
(* The streaming message endpoint (backend/main.py, send_message_stream).  *)
(***************************************************************************)
\* The model responses of one council run, as far as its results show them:
\* the members that answered the panel stage, the members that answered the
\* ranking stage, the chairman's final text.
FinalTexts == {"final", "Error: Unable to generate final synthesis."}
AllMembers == [m \in Members |-> m]
NoText == ""

\* The runs of each step: the run of stage1_collect_responses executes the
\* panel stage alone, that of stage2_collect_rankings the panel and the ranking
\* stage, that of stage3_synthesize_final all three (of its panel and ranking
\* answers, which do not show in what it returns, one choice is followed).
Worlds(n) ==
    CASE n = 1 -> [panel : Responders, judges : {<<>>}, final : {NoText}]
      [] n = 2 -> [panel : Responders, judges : Responders, final : {NoText}]
      [] OTHER -> [panel : {AllMembers}, judges : {AllMembers}, final : FinalTexts]

\* Mutant: the labels are those of the stage results passed in.
Stage2CollectRankings_reusesPassed(user_query, passed_stage1_results, w) ==
    [stage2_results |-> ResultRows(w.judges, "ranking"),
     label_to_model |->
        JDict([i \in 1..Len(passed_stage1_results.items) |->
                  JItem(Labels[i], passed_stage1_results.items[i].val.items[2].val)])]

\* council.py, lines 560-603: each entry point runs the council anew, with the
\* stage subset [1], [1, 2] or [1, 2, 3], and returns its part of that run's
\* results; the stage results passed in are not read.
Stage1CollectResponses(user_query, w) == ResultRows(w.panel, "response")
Stage2CollectRankings(user_query, passed_stage1_results, w) ==
    [stage2_results |-> ResultRows(w.judges, "ranking"),
     label_to_model |-> LabelMap(w.panel)]
Stage3SynthesizeFinal(user_query, passed_stage1_results, passed_stage2_results, w) ==
    ChairRow(w.final)

\* What an entry point's run may come to, the first time and when retried:
\* its results, an error without a status, and errors with status 402 and 429.
FirstTries ==
    {Result("result-1"), Error("error-1", NoCodes),
     Error("error-1", [NoCodes EXCEPT !.status_code = 402]),
     Error("error-1", [NoCodes EXCEPT !.status_code = 429])}
SecondTries == {Result("result-2"), Error("error-2", NoCodes)}
StepTries == [first : FirstTries, second : SecondTries, log : {"returns"}, cancelled : BOOLEAN]

\* An event of the stream.
Event(type, data, metadata) == [type |-> type, data |-> data, metadata |-> metadata]
StartEvent(n) == Event(<<"stage1_start", "stage2_start", "stage3_start">>[n], JNone, JNone)
CompleteType(n) == <<"stage1_complete", "stage2_complete", "stage3_complete">>[n]

\* Lines 565-578: the error event, with code 402 for an error of that status.
ErrorEvent(codes) ==
    IF ExtractStatusCode(codes) = 402
      THEN Event("error", JStr("Upstream provider credits exhausted (402)."),
                 JDict(<<JItem("code", JStr("402"))>>))
      ELSE Event("error", JStr("str(e)"), JNone)

\* Lines 313-321 and 531: the execution event that follows stage3_complete.
ExecutionEvent ==
    Event("execution", JNone,
          SanitizeForConversation(
              JDict(<<JItem("execution",
                      JDict(<<JItem("requested_council", JNone),
                              JItem("requested_stages", JStr("stages")),
                              JItem("council_applied", JNone),
                              JItem("stages_executed", JStr("stages"))>>))>>)))

\* Mutant: the ranking stage is passed over.
AfterStage_skipsSecond(n) == <<"stage3", "stage3", "title">>[n]

\* Where the generator goes after stage n.
AfterStage(n) == <<"stage2", "stage3", "title">>[n]

\* Lines 412-418: the conversation exists and the stages are normalized.
InitGen ==
    /\ gen_pc = "begin"
    /\ req_stages \in RequestedStages
    /\ is_first_message \in BOOLEAN
    /\ sse = <<>>
    /\ stored = <<>>
    /\ g_stage1_results = JNone
    /\ g_stage2_results = JNone
    /\ g_label_to_model = JNone
    /\ g_stage3_result = JNone
    /\ gen_runs = <<>>
    /\ RunIdle
    /\ QMIdle
    /\ FnIdle

\* Lines 425-444: the user message is stored; the title task is created.
GenBegin ==
    /\ gen_pc = "begin"
    /\ stored' = Append(stored, "add_user_message")
    /\ gen_pc' = "stage1"
    /\ UNCHANGED <<req_stages, is_first_message, sse, g_stage1_results,
                   g_stage2_results, g_label_to_model, g_stage3_result, gen_runs>>
    /\ UNCHANGED notGenVars

\* Lines 448-449, 485-486, 510-511: a requested stage announces itself.
StageStart(n) ==
    /\ gen_pc = <<"stage1", "stage2", "stage3">>[n]
    /\ n \in req_stages
    /\ sse' = Append(sse, StartEvent(n))
    /\ gen_pc' = <<"run1", "run2", "run3">>[n]
    /\ UNCHANGED <<req_stages, is_first_message, stored, g_stage1_results,
                   g_stage2_results, g_label_to_model, g_stage3_result, gen_runs>>
    /\ UNCHANGED notGenVars

\* A stage that was not requested is passed over.
StageSkip(n) ==
    /\ gen_pc = <<"stage1", "stage2", "stage3">>[n]
    /\ n \notin req_stages
    /\ gen_pc' = AfterStage(n)
    /\ UNCHANGED <<req_stages, is_first_message, sse, stored, g_stage1_results,
                   g_stage2_results, g_label_to_model, g_stage3_result, gen_runs>>
    /\ UNCHANGED notGenVars

\* Lines 449-479, 487-506, 513-531: the stage's entry point is called under
\* _retry_once_on_transient. Its result is kept and the stage's complete event
\* is yielded (after stage 3 the execution event too); an error ends the
\* stream with an error event (lines 565-578), a cancellation without one
\* (lines 556-563).
StageRun(n) ==
    /\ gen_pc = <<"run1", "run2", "run3">>[n]
    /\ \E try \in StepTries : \E w \in Worlds(n) :
         LET r == RetryOnceOnTransient(try).outcome
             s1 == Stage1CollectResponses("query", w)
             s2 == Stage2CollectRankings("query", g_stage1_results, w)
             s3 == Stage3SynthesizeFinal("query", g_stage1_results, g_stage2_results, w)
         IN
         IF r.kind = "result"
           THEN /\ gen_runs' = Append(gen_runs, [stage |-> n, world |-> w])
                /\ g_stage1_results' = IF n = 1 THEN s1 ELSE g_stage1_results
                /\ g_stage2_results' = IF n = 2 THEN s2.stage2_results ELSE g_stage2_results
                /\ g_label_to_model' = IF n = 2 THEN s2.label_to_model ELSE g_label_to_model
                /\ g_stage3_result' = IF n = 3 THEN s3 ELSE g_stage3_result
                /\ sse' = sse \o
                     CASE n = 1 ->
                            <<Event(CompleteType(1), SanitizeForConversation(s1), JNone)>>
                       [] n = 2 ->
                            <<Event(CompleteType(2),
                                    SanitizeForConversation(s2.stage2_results),
                                    SanitizeForConversation(
                                        JDict(<<JItem("label_to_model", s2.label_to_model),
                                                JItem("aggregate_rankings", JList(<<>>))>>)))>>
                       [] OTHER ->
                            <<Event(CompleteType(3), SanitizeForConversation(s3), JNone),
                              ExecutionEvent>>
                /\ gen_pc' = AfterStage(n)
           ELSE /\ UNCHANGED <<gen_runs, g_stage1_results, g_stage2_results,
                               g_label_to_model, g_stage3_result>>
                /\ IF r.tag = "CancelledError"
                     THEN gen_pc' = "cancelled" /\ UNCHANGED sse
                     ELSE gen_pc' = "error" /\ sse' = Append(sse, ErrorEvent(r.codes))
    /\ UNCHANGED <<req_stages, is_first_message, stored>>
    /\ UNCHANGED notGenVars

\* Lines 534-538: the title of a first message is awaited, stored and sent.
TitleDone ==
    /\ gen_pc = "title"
    /\ is_first_message
    /\ stored' = Append(stored, "update_conversation_title")
    /\ sse' = Append(sse, Event("title_complete",
                                JDict(<<JItem("title", JStr("New Conversation"))>>), JNone))
    /\ gen_pc' = "save"
    /\ UNCHANGED <<req_stages, is_first_message, g_stage1_results, g_stage2_results,
                   g_label_to_model, g_stage3_result, gen_runs>>
    /\ UNCHANGED notGenVars

TitleSkip ==
    /\ gen_pc = "title"
    /\ ~is_first_message
    /\ gen_pc' = "save"
    /\ UNCHANGED <<req_stages, is_first_message, sse, stored, g_stage1_results,
                   g_stage2_results, g_label_to_model, g_stage3_result, gen_runs>>
    /\ UNCHANGED notGenVars

\* Lines 541-554: the assistant message is stored and the stream completes.
SaveAndComplete ==
    /\ gen_pc = "save"
    /\ stored' = Append(stored, "add_assistant_message")
    /\ sse' = Append(sse, Event("complete", JNone, JNone))
    /\ gen_pc' = "closed"
    /\ UNCHANGED <<req_stages, is_first_message, g_stage1_results, g_stage2_results,
                   g_label_to_model, g_stage3_result, gen_runs>>
    /\ UNCHANGED notGenVars

\* Lines 77-85 and 556-563: the client is found disconnected, or the
\* generator's task is cancelled where it is suspended: CancelledError is
\* logged and re-raised, and nothing more is yielded.
Disconnected ==
    /\ gen_pc \in {"begin", "stage1", "run1", "stage2", "run2", "stage3", "run3", "title"}
    /\ gen_pc' = "cancelled"
    /\ UNCHANGED <<req_stages, is_first_message, sse, stored, g_stage1_results,
                   g_stage2_results, g_label_to_model, g_stage3_result, gen_runs>>
    /\ UNCHANGED notGenVars

NextGen ==
    \/ GenBegin
    \/ \E n \in 1..3 : StageStart(n)
    \/ \E n \in 1..3 : StageSkip(n)
    \/ \E n \in 1..3 : StageRun(n)
    \/ TitleDone
    \/ TitleSkip
    \/ SaveAndComplete
    \/ Disconnected

SpecStream == InitGen /\ [][NextGen]_vars

(***************************************************************************)
(* Properties.                                                             *)
(***************************************************************************)
\* The member calls dispatched so far.
MemberCalls == {c \in 1..Len(calls) : calls[c].who # Chair}

\* The members that have a row in the results of the fanout stage at index i.
RowMembers(i) == {ResultsOf(i)[k].member : k \in 1..Len(ResultsOf(i))}

\* The fanout stage at index i has been assembled (the run is past it).
Assembled(i) == i < idx

\* C1: in every fanout stage's result list the rows are in declared member
\* order: a row of member i precedes a row of member j whenever i is declared
\* before j, whatever the order in which the calls completed.
C1_ResultsInMemberOrder ==
    /\ \A i, j \in 1..Len(stage1_results) :
          i < j => stage1_results[i].member < stage1_results[j].member
    /\ \A i, j \in 1..Len(stage2_results) :
          i < j => stage2_results[i].member < stage2_results[j].member

\* C1 witness: a stage has just been assembled in which a later-declared
\* member completed before an earlier-declared one, and both have a row.
C1_Witness ==
    /\ pc = "loop"
    /\ \E a, b \in 1..Len(order) :
          /\ a < b
          /\ calls[order[a]].who > calls[order[b]].who
          /\ calls[order[a]].stage = idx - 1
          /\ {calls[order[a]].who, calls[order[b]].who} \subseteq RowMembers(idx - 1)

\* The assembly of the fanout stage at index i raised on a result whose content
\* is None: the run ended there.
AssemblyRaised(i) == pc = "raised" /\ idx = i /\ Kind(stages[i]) = "fanout_members"

C3_StragglersCancelled ==
    /\ \A c \in MemberCalls : Assembled(calls[c].stage) => calls[c].st # "running"
    /\ \A c \in MemberCalls :
          calls[c].st = "cancelled" =>
              /\ calls[c].who \notin RowMembers(calls[c].stage)
              /\ LET text == IF FanoutNumber(calls[c].stage) = 1
                               THEN ctx["responses_text"] ELSE ctx["rankings_text"]
                 IN \A k \in 1..Len(text) : text[k][1] # MemberName(calls[c].who)
    /\ \A i \in 1..Len(stages) :
          (Kind(stages[i]) = "fanout_members" /\ Assembled(i)) =>
              LET rows == ResultsOf(i)
              IN \A k \in 1..Len(rows) :
                    \E c \in 1..Len(calls) :
                        /\ calls[c].stage = i
                        /\ calls[c].who = rows[k].member
                        /\ calls[c].st \in {"ok", "none"}

\* C3 witness: a member's panel call was cancelled at the deadline, and the
\* ranking stage was later assembled with a row of that same member.
C3_Witness ==
    \E c, d \in MemberCalls :
        /\ calls[c].st = "cancelled"
        /\ FanoutNumber(calls[c].stage) = 1
        /\ calls[d].who = calls[c].who
        /\ calls[d].stage > calls[c].stage
        /\ Assembled(calls[d].stage)
        /\ calls[d].who \in RowMembers(calls[d].stage)

\* C4 (as claimed): once the run has been cancelled, no call it dispatched is
\* left running.
C4_CancelReachesEveryCall ==
    pc = "cancelled" => \A c \in 1..Len(calls) : calls[c].st # "running"

\* C5 (as claimed): a member call that completed with a failure (it returned
\* None, or it raised) has no row in the results of its stage.
C5_FailedCallDropped ==
    \A c \in MemberCalls :
        (Assembled(calls[c].stage) /\ calls[c].st \in {"none", "raised"})
            => calls[c].who \notin RowMembers(calls[c].stage)

\* C6 (as claimed): when run_full_council returns after a panel stage that
\* produced no result, it returns the error result with empty lists and no call
\* of a stage after the panel stage was dispatched.
C6_EmptyPanelEndsRun ==
    (pc = "returned" /\ ret.entry = "run_full_council" /\ fanout_seen >= 1
        /\ stage1_results = <<>>)
        => /\ ret.stage1 = <<>>
           /\ ret.stage2 = <<>>
           /\ ret.stage3.model = "error"
           /\ \A c \in 1..Len(calls) : FanoutNumber(calls[c].stage) <= 1
           /\ \A c \in 1..Len(calls) :
                 calls[c].who = Chair => FanoutNumber(calls[c].stage) = 0

\* C7: when the validate-council-applicability stage's output is an object
\* whose decision is STOP, the stage loop is left at once: no call of a later
\* stage is ever dispatched, and the final response Council.run returns is the
\* object pretty-printed.
C7_StopHaltsRun ==
    ("council_applicability" \in DOMAIN ctx
        /\ ctx["council_applicability"].decision = "STOP")
        => /\ pc \in {"break", "returned"}
           /\ stages[idx] = "validate-council-applicability"
           /\ \A c \in 1..Len(calls) : calls[c].stage <= idx
           /\ stage3_result.response = "{\n  \"decision\": \"STOP\"\n}"
           /\ (pc = "returned" /\ ret.entry = "stage3_synthesize_final")
                 => ret.stage3.response = "{\n  \"decision\": \"STOP\"\n}"

\* C7 witness: a run returned after the chairman answered the validation stage
\* with a STOP decision.
C7_Witness ==
    /\ pc = "returned"
    /\ "council_applicability" \in DOMAIN ctx
    /\ ctx["council_applicability"].decision = "STOP"
    /\ calls[Len(calls)].content = cStop
    /\ ret.entry = "stage3_synthesize_final"

\* C8: query_model makes at most two HTTP attempts, and a second one only after
\* a transient first one; a transient first attempt is followed by a second
\* unless the call is cancelled; transient then success returns the content of
\* the second response; transient twice returns None.
C8_RetryExactlyOnce ==
    /\ Len(httpLog) <= 2
    /\ Len(httpLog) = 2 => httpLog[1].status \in {429, 502, 503}
    /\ (qpc = "done" /\ Len(httpLog) = 1 /\ httpLog[1].status \in {429, 502, 503})
          => qresult = [kind |-> "raise", value |-> "CancelledError"]
    /\ (qpc = "done" /\ Len(httpLog) = 2 /\ httpLog[2].status = 200
            /\ httpLog[2].body # Malformed)
          => qresult = [kind |-> "content", value |-> httpLog[2].body]
    /\ (qpc = "done" /\ Len(httpLog) = 2 /\ httpLog[2].status \in {429, 502, 503})
          => qresult = [kind |-> "None", value |-> ""]

\* C8 witness: a first attempt answered 503, a second one answered with
\* content, and the call returned it.
C8_Witness ==
    /\ qpc = "done"
    /\ Len(httpLog) = 2
    /\ httpLog[1].status = 503
    /\ httpLog[2].status = 200
    /\ qresult = [kind |-> "content", value |-> "answer"]

\* The first attempt failed with something that is not a transient status: a
\* status outside {429, 502, 503}, a network error, or a malformed body.
FirstAttemptFailedNotTransient ==
    /\ Len(httpLog) >= 1
    /\ \/ httpLog[1].kind = "network_error"
       \/ httpLog[1].kind = "status" /\ httpLog[1].status \notin {200, 429, 502, 503}
       \/ httpLog[1].kind = "status" /\ httpLog[1].status = 200 /\ httpLog[1].body = Malformed

C10_CreditsExhaustedSurfaced ==
    (qpc = "done" /\ Len(httpLog) >= 1 /\ httpLog[Len(httpLog)].status = 402)
        => qresult = [kind |-> "raise", value |-> "HTTPException402"]

\* The call was cancelled: an attempt was started and never got its outcome,
\* or the outcome of the last attempt asked for a retry that did not happen.
QMCancelled ==
    /\ qpc = "done"
    /\ \/ Len(httpLog) < attempt
       \/ /\ Len(httpLog) = attempt
          /\ InnerOutcome(httpLog[attempt], attempt) = "retry"

\* The last attempt failed: an error status, a network error or a malformed body.
LastAttemptFailed ==
    /\ Len(httpLog) >= 1
    /\ LET o == httpLog[Len(httpLog)]
       IN o.kind = "network_error" \/ o.status # 200 \/ o.body = Malformed

C12_LabelsPositional ==
    pc = "returned" =>
        LET ltm == metadata_out.label_to_model
            n == Len(stage1_results)
        IN /\ DOMAIN ltm = {Labels[k] : k \in 1..n}
           /\ Cardinality(DOMAIN ltm) = n
           /\ \A k \in 1..n : ltm[Labels[k]] = MemberName(stage1_results[k].member)
           /\ \A j, k \in 1..n : j < k => stage1_results[j].member < stage1_results[k].member

\* C12 witness: a run returned with at least two panel results, the second of
\* which is labelled "Response B".
C12_Witness ==
    /\ pc = "returned"
    /\ Len(stage1_results) >= 2
    /\ DOMAIN metadata_out.label_to_model = {"Response A", "Response B"}
    /\ metadata_out.label_to_model["Response B"] = MemberName(stage1_results[2].member)
    /\ metadata_out.label_to_model["Response A"] # metadata_out.label_to_model["Response B"]

\* A heading of a block of context text that is the name of a member.
NamesAMember(heading) == \E m \in Members : heading = MemberName(m)

\* C13 (as claimed): while the calls of the ranking stage (the second fanout
\* stage) are dispatched, no context text their prompts are rendered from names
\* a panel member.
C13_JudgeContextAnonymous ==
    (pc = "waitFanout" /\ fanout_seen = 2) =>
        /\ \A k \in 1..Len(ctx["responses_text"]) : ~NamesAMember(ctx["responses_text"][k][1])
        /\ \A k \in 1..Len(ctx["stage1_text"]) : ~NamesAMember(ctx["stage1_text"][k][2])

\* The stage call applied, its arguments and its outcome.
StageCallDone == fnName = "stage_call" /\ fnDone

\* The template of the stage call references a key the context lacks.
ReferencesAbsentKey ==
    \E k \in Referenced(fnArg.stage.prompt) : k \notin DOMAIN fnArg.context

C15_RequiredInputsPresent ==
    (StageCallDone /\ fnRes.dispatched) =>
        \A k \in fnArg.stage.inputs_required :
            k \in DOMAIN fnArg.context /\ fnArg.context[k] # ""

\* The tail of a ranking text: everything after the first marker.
TailAfterMarker(text) ==
    LET marks == {i \in 1..Len(text) : text[i] = Marker}
        i == CHOOSE j \in marks : \A k \in marks : j <= k
    IN SubSeq(text, i + 1, Len(text))

\* C16 (as claimed): with the marker present, parse_ranking_from_text returns
\* the labels of the numbered lines of the tail in document order, or, when the
\* tail has no numbered line, every label of the tail in order of appearance;
\* with the marker absent, every label of the whole text in order of appearance.
C16_ParseRankingFallbacks ==
    (fnName = "parse_ranking_from_text" /\ fnDone) =>
        IF \E i \in 1..Len(fnArg) : fnArg[i] = Marker
          THEN IF \E i \in 1..Len(TailAfterMarker(fnArg)) :
                      TailAfterMarker(fnArg)[i].type = "numbered"
                 THEN fnRes = NumberedMatches(TailAfterMarker(fnArg))
                 ELSE fnRes = ResponseMatches(TailAfterMarker(fnArg))
          ELSE fnRes = ResponseMatches(fnArg)

\* The labels a judge listed, in the order of the judge's numbered lines.
JudgeList(row) == [i \in 1..(Len(row.ranking) - 1) |-> row.ranking[i + 1].label]

\* The places (judge, position) at which an identity is ranked.
PlacesOf(model) ==
    {jp \in (1..Len(fnArg.stage2_results)) \X (1..Cardinality(RankLabels)) :
        /\ jp[2] <= Len(JudgeList(fnArg.stage2_results[jp[1]]))
        /\ JudgeList(fnArg.stage2_results[jp[1]])[jp[2]] \in DOMAIN fnArg.label_to_model
        /\ fnArg.label_to_model[JudgeList(fnArg.stage2_results[jp[1]])[jp[2]]] = model}

\* The sum of the positions of a set of places.
RECURSIVE SumOfPlaces(_)
SumOfPlaces(places) ==
    IF places = {} THEN 0
    ELSE LET jp == CHOOSE x \in places : TRUE
         IN jp[2] + SumOfPlaces(places \ {jp})

\* Place a comes before place b in the order the judges' lists are read.
Before(a, b) == a[1] < b[1] \/ (a[1] = b[1] /\ a[2] < b[2])

\* An identity is first met before another one.
MetBefore(m1, m2) ==
    \E a \in PlacesOf(m1) : \A b \in PlacesOf(m2) : Before(a, b)

\* C17: calculate_aggregate_rankings returns one entry for every identity that
\* some judge ranked and none for the others; an entry's count is the number of
\* positions the identity was given and its average_rank is their arithmetic
\* mean to the nearest hundredth; the entries are in ascending order of
\* average_rank, equal ones in the order the identities were first met; judges
\* [C, A, B] and [A, C, B] over A->X, B->Y, C->Z give Z and X at 1.5 and Y at 3,
\* each with count 2, Y last.
C17_AggregateMeanRank ==
    (fnName = "calculate_aggregate_rankings" /\ fnDone) =>
        LET out == fnRes
            ranked == {m \in {"X", "Y", "Z"} : PlacesOf(m) # {}}
        IN /\ {out[i].model : i \in 1..Len(out)} = ranked
           /\ Len(out) = Cardinality(ranked)
           /\ \A i \in 1..Len(out) :
                 LET places == PlacesOf(out[i].model)
                     n == Cardinality(places)
                     d == 100 * SumOfPlaces(places) - n * out[i].average_rank
                 IN /\ out[i].rankings_count = n
                    /\ 2 * d <= n
                    /\ 2 * d >= 0 - n
           /\ \A i, j \in 1..Len(out) :
                 i < j => /\ out[i].average_rank <= out[j].average_rank
                          /\ out[i].average_rank = out[j].average_rank
                                => MetBefore(out[i].model, out[j].model)
           /\ (/\ Len(fnArg.stage2_results) = 2
               /\ JudgeList(fnArg.stage2_results[1]) = <<"Response C", "Response A", "Response B">>
               /\ JudgeList(fnArg.stage2_results[2]) = <<"Response A", "Response C", "Response B">>
               /\ DOMAIN fnArg.label_to_model = RankLabels)
                 => out = << [model |-> "Z", average_rank |-> 150, rankings_count |-> 2],
                             [model |-> "X", average_rank |-> 150, rankings_count |-> 2],
                             [model |-> "Y", average_rank |-> 300, rankings_count |-> 2] >>

\* C17 witness: the judges [C, A, B] and [A, C, B] have been aggregated over the
\* three identities, and the identity ranked last by both comes last.
C17_Witness ==
    /\ fnName = "calculate_aggregate_rankings"
    /\ fnDone
    /\ Len(fnArg.stage2_results) = 2
    /\ JudgeList(fnArg.stage2_results[1]) = <<"Response C", "Response A", "Response B">>
    /\ JudgeList(fnArg.stage2_results[2]) = <<"Response A", "Response C", "Response B">>
    /\ DOMAIN fnArg.label_to_model = RankLabels
    /\ Len(fnRes) = 3
    /\ fnRes[3] = [model |-> "Y", average_rank |-> 300, rankings_count |-> 2]

\* The values of a stages list that was given and is not empty.
GivenStages == {fnArg.list[i] : i \in 1..Len(fnArg.list)}

\* C19: _normalize_stages returns [1, 2, 3] when no stages are given (None or
\* an empty list); a list with a value outside {1, 2, 3}, with 2 but not 1, or
\* with 3 but not both 1 and 2 is rejected with status 400; every other list
\* is returned in ascending order without duplicates; so an accepted result is
\* one of [1], [1, 2], [1, 2, 3].
C19_NormalizeStages ==
    (fnName = "_normalize_stages" /\ fnDone) =>
        /\ fnRes.kind = "ok" => fnRes.stages \in {<<1>>, <<1, 2>>, <<1, 2, 3>>}
        /\ fnRes.kind # "ok" => (fnRes.kind = "HTTPException" /\ fnRes.status_code = 400)
        /\ IF ~fnArg.given THEN fnRes = [kind |-> "ok", status_code |-> 200, stages |-> <<1, 2, 3>>]
           ELSE IF fnArg.list = <<>> THEN fnRes = [kind |-> "ok", status_code |-> 200, stages |-> <<1, 2, 3>>]
           ELSE IF \/ \E x \in GivenStages : x \notin {1, 2, 3}
                   \/ (2 \in GivenStages /\ 1 \notin GivenStages)
                   \/ (3 \in GivenStages /\ ~({1, 2} \subseteq GivenStages))
             THEN fnRes.kind = "HTTPException" /\ fnRes.status_code = 400
           ELSE /\ fnRes.kind = "ok"
                /\ {fnRes.stages[i] : i \in 1..Len(fnRes.stages)} = GivenStages
                /\ \A i, j \in 1..Len(fnRes.stages) : i < j => fnRes.stages[i] < fnRes.stages[j]

\* C19 witness: an unsorted list with a duplicate was normalized to [1, 2].
C19_Witness ==
    /\ fnName = "_normalize_stages"
    /\ fnDone
    /\ fnArg = [given |-> TRUE, list |-> <<2, 1, 2>>]
    /\ fnRes.kind = "ok"
    /\ fnRes.stages = <<1, 2>>

\* chairman_seen when the stage at index i is reached: the single stages up to i.
SingletonNumber(i) == Cardinality({k \in 1..i : Kind(stages[k]) # "fanout_members"})

\* The index of the first single stage of the stage list.
FirstSingleton == CHOOSE i \in 1..Len(stages) :
                      Kind(stages[i]) # "fanout_members" /\ SingletonNumber(i) = 1

C20_AmbientRunIdScoped ==
    /\ pc \in {"loop", "waitFanout", "waitChair", "break"} => ambient_run_id = run_id
    /\ pc \in {"returned", "raised", "cancelled"} => ambient_run_id = "None"

\* The markers of a ranking text.
MarkerCount(text) == Cardinality({i \in 1..Len(text) : text[i] = Marker})

\* C26 (as claimed): when the marker occurs more than once in a ranking text,
\* parse_ranking_from_text reads everything after the first marker, the text
\* after the later markers included: it returns the labels of the numbered
\* lines found there, or every label found there when there is no numbered
\* line.
C26_TailIncludesLaterMarkers ==
    (fnName = "parse_ranking_from_text" /\ fnDone /\ MarkerCount(fnArg) > 1) =>
        LET tail == TailAfterMarker(fnArg)
        IN /\ NumberedMatches(tail) # <<>> => fnRes = NumberedMatches(tail)
           /\ NumberedMatches(tail) = <<>> => fnRes = ResponseMatches(tail)

\* The judges (rows of stage2_results) that ranked an identity at all.
JudgesRanking(model) == {jp[1] : jp \in PlacesOf(model)}

\* C27 (as claimed): in every entry calculate_aggregate_rankings returns,
\* rankings_count is the number of judges who ranked the identity, and so it
\* never exceeds the number of judge results.
C27_CountIsJudges ==
    (fnName = "calculate_aggregate_rankings" /\ fnDone) =>
        \A i \in 1..Len(fnRes) :
            /\ fnRes[i].rankings_count = Cardinality(JudgesRanking(fnRes[i].model))
            /\ fnRes[i].rankings_count <= Len(fnArg.stage2_results)

\* C23 (as claimed): log_event returns normally whatever fails while the log
\* directory is created, the log file is written or the line is emitted.
C23_LogEventNeverRaises ==
    (fnName = "log_event" /\ fnDone) => fnRes.kind = "returned"

\* A list names some member more than once.
HasDuplicates(l) == \E i, j \in 1..Len(l) : i # j /\ l[i] = l[j]

\* C22 (as claimed): load_council fails for a council definition whose member
\* list is empty or names a member twice, so a council it returns has a
\* non-empty member list without duplicates.
C22_MemberListValidated ==
    (fnName = "load_council" /\ fnDone) =>
        /\ (fnArg.members = <<>> \/ HasDuplicates(fnArg.members)) => fnRes.kind = "error"
        /\ fnRes.kind = "ok" => (fnRes.members # <<>> /\ ~HasDuplicates(fnRes.members))

\* Some reference of the council definition does not resolve.
SomeRefUnresolved == \E r \in DOMAIN docs : docs[r] # "ok"

\* C21: when a reference of the council (the council document, its chairman,
\* a member, a persona of either, a stage) is missing, does not parse or lacks
\* a required field, hydration fails with an error for a reference that does
\* not resolve, Council.run never starts and no model call is ever dispatched;
\* hydration itself dispatches no call; and a run that has started has a
\* council whose every reference resolved.
C21_HydrationBeforeRun ==
    /\ pc \in {"hydrate", "hydration_failed", "start"} => calls = <<>>
    /\ SomeRefUnresolved =>
          /\ pc \in {"hydrate", "hydration_failed"}
          /\ calls = <<>>
          /\ ctx = <<>>
    /\ pc = "hydration_failed" =>
          /\ council.kind = "error"
          /\ council.unresolved \in DOMAIN docs
          /\ docs[council.unresolved] # "ok"
    /\ pc \notin {"hydrate", "hydration_failed"} =>
          /\ council.kind = "ok"
          /\ ~SomeRefUnresolved

\* C21 witness: the persona of the last member is missing while every other
\* reference resolves; hydration failed on it and no call was dispatched.
C21_Witness ==
    /\ pc = "hydration_failed"
    /\ docs[Ref("persona", NumMembers)] = "missing"
    /\ \A r \in DOMAIN docs : r # Ref("persona", NumMembers) => docs[r] = "ok"
    /\ council.unresolved = Ref("persona", NumMembers)
    /\ calls = <<>>

\* C25 (as claimed): for a council that hydrates, whatever the model calls of
\* the run did, once the run has ended send_message answers with status 200 and a body holding stage1,
\* stage2 and stage3 (null for the stages that were not requested,
\* label_to_model null when stage 2 was not requested).
C25_MessageAlwaysAnswered200 ==
    \A requested \in RequestedStages :
        LET answer == SendMessageResponse(requested)
        IN (council.kind = "ok" /\ answer # NoResponse) =>
              /\ answer.status_code = 200
              /\ {"stage1", "stage2", "stage3"} \subseteq DOMAIN answer
              /\ \A n \in {1, 2, 3} \ requested :
                    answer[<<"stage1", "stage2", "stage3">>[n]] = JsonNull
              /\ (2 \notin requested) => answer.label_to_model = JsonNull

\* The message list a call holds is the one built for its member (or for the
\* chairman): the system message is that member's persona and addendum, and the
\* prompt was rendered with that same text as persona_prompt.
OwnMessages(c) ==
    LET who == calls[c].who
        msgs == calls[c].messages
    IN /\ Len(msgs) = 2
       /\ msgs[1] = [role |-> "system", content |-> SystemText(who)]
       /\ msgs[2].role = "user"
       /\ msgs[2].content[1] = stages[calls[c].stage]
       /\ msgs[2].content[2]["persona_prompt"] = SystemText(who)

\* A step in which a member's call completes by itself (the run does not move).
MemberCallStep ==
    \E c \in MemberCalls : calls[c].st = "running" /\ calls'[c].st \in DoneStates

SynthesisCalls ==
    {c \in 1..Len(calls) :
        /\ calls[c].who = Chair
        /\ stages[calls[c].stage] \notin {"improve-prompt", "validate-council-applicability"}}

\* C28: once the chairman's call of such a stage has answered, the run's final
\* result is the chairman's record with the content of the call; when the call
\* returned None or empty content, or was cancelled because its own deadline
\* (STAGE3_WALL_TIMEOUT_S) expired, the final response is the error text, the
\* timeout is logged, and the run goes on to return normally: Council.run
\* returns that final result.
C28_SynthesisIsFinalResult ==
    \A c \in SynthesisCalls :
        /\ (calls[c].st = "ok" /\ calls[c].content # "") =>
              stage3_result = ChairResult(calls[c].content)
        /\ (calls[c].st = "none" \/ (calls[c].st = "ok" /\ calls[c].content = "")
               \/ (calls[c].st = "cancelled" /\ pc # "cancelled")) =>
              stage3_result = ChairResult("Error: Unable to generate final synthesis.")
        /\ (calls[c].st = "cancelled" /\ pc # "cancelled") =>
              \E k \in 1..Len(timeoutLog) :
                  /\ timeoutLog[k].stage_id = stages[calls[c].stage]
                  /\ timeoutLog[k].wall_timeout_s = STAGE3_WALL_TIMEOUT_S
        /\ (calls[c].st \in {"ok", "none"} \/ (calls[c].st = "cancelled" /\ pc # "cancelled")) =>
              /\ idx > calls[c].stage
              /\ pc \in {"loop", "returned"}
              /\ (pc = "returned" /\ ret.entry \in {"stage3_synthesize_final", DirectCall})
                    => ret.stage3 = stage3_result

\* C28 witness: the synthesis call timed out and Council.run returned the error
\* text as its final response.
C28_Witness ==
    /\ pc = "returned"
    /\ ret.entry = "stage3_synthesize_final"
    /\ ret.stage3.response = "Error: Unable to generate final synthesis."
    /\ \E c \in SynthesisCalls : calls[c].st = "cancelled"

\* The context the prompt of call c was rendered from (the user message is the
\* last message of the list).
RenderContext(c) == calls[c].messages[Len(calls[c].messages)].content[2]

\* The chairman's calls for the improve-prompt stage.
ImproveCalls ==
    {c \in 1..Len(calls) : calls[c].who = Chair /\ stages[calls[c].stage] = "improve-prompt"}

\* The output of call c is a JSON object with a string improved_query that is
\* not empty once trimmed.
HasImprovedQuery(c) ==
    calls[c].st = "ok" /\ ParseJson(calls[c].content).improved_query \notin {Absent, "", " "}

\* C29: once the run is past an improve-prompt stage whose output is an object
\* with a non-empty string improved_query, the context holds that string
\* trimmed under improved_query, and so does the context every call of a later
\* stage was rendered from; when the output is anything else (not an object, no
\* such field, no answer, a timeout) improved_query is in neither, and the run
\* has gone on to the next stage.
C29_ImprovedQueryInjected ==
    \A c \in ImproveCalls :
        (calls[c].st \in {"ok", "none"} \/ (calls[c].st = "cancelled" /\ pc # "cancelled")) =>
            /\ idx > calls[c].stage
            /\ IF HasImprovedQuery(c)
                 THEN /\ "improved_query" \in DOMAIN ctx
                      /\ ctx["improved_query"] = "better"
                      /\ \A d \in 1..Len(calls) :
                            calls[d].stage > calls[c].stage =>
                                /\ "improved_query" \in DOMAIN RenderContext(d)
                                /\ RenderContext(d)["improved_query"] = "better"
                 ELSE /\ "improved_query" \notin DOMAIN ctx
                      /\ \A d \in 1..Len(calls) :
                            "improved_query" \notin DOMAIN RenderContext(d)

\* C29 witness: the improve-prompt stage answered with an improved query, and
\* the synthesis call, two stages later, was rendered with it.
C29_Witness ==
    \E c \in ImproveCalls, d \in SynthesisCalls :
        /\ HasImprovedQuery(c)
        /\ calls[d].stage > calls[c].stage + 1
        /\ RenderContext(d)["improved_query"] = "better"

\* C30: every prompt of the second fanout stage was rendered from a context
\* whose responses_text and stage1_text are the ones made from the assembled
\* panel results, every synthesis prompt from a context whose rankings_text
\* and stage2_text are the ones made from the assembled judge results, and
\* whenever the run is between stages or has returned, stage_context is
\* non-empty exactly when stage1_text or stage2_text is.
C30_RenderingSeesFreshContext ==
    /\ LET responses_text == JoinRows(stage1_results, "response")
           stage1_text == FormatStageText(stage1_results, "response")
           rankings_text == JoinRows(stage2_results, "ranking")
           stage2_text == FormatStageText(stage2_results, "ranking")
       IN \A c \in 1..Len(calls) :
             LET seen == RenderContext(c)
             IN IF calls[c].who # Chair
                  THEN FanoutNumber(calls[c].stage) = 2 =>
                          /\ seen["responses_text"] = responses_text
                          /\ seen["stage1_text"] = stage1_text
                  ELSE c \in SynthesisCalls =>
                          /\ seen["responses_text"] = responses_text
                          /\ seen["stage1_text"] = stage1_text
                          /\ seen["rankings_text"] = rankings_text
                          /\ seen["stage2_text"] = stage2_text
    /\ pc \in {"loop", "break", "returned"} =>
          (ctx["stage_context"] # <<>>
              <=> (ctx["stage1_text"] # <<>> \/ ctx["stage2_text"] # <<>>))

\* C30 witness: the synthesis call was dispatched after both fanout stages had
\* results, and its prompt was rendered with the judges' text.
C30_Witness ==
    \E c \in SynthesisCalls :
        /\ stage1_results # <<>>
        /\ stage2_results # <<>>
        /\ RenderContext(c)["stage2_text"] # <<>>
        /\ RenderContext(c)["responses_text"] # <<>>
        /\ ctx["stage_context"] # <<>>

\* C31 (as claimed): the prompt Council.run renders for a stage with a parts
\* list is the parts in declared order, each wrapped according to its render
\* style, trimmed; and when a required part has no content rendering fails
\* naming the part, and the call is not dispatched.
C31_PartsRenderedInOrder ==
    (fnName = "parts_stage_call" /\ fnDone) =>
        LET expected == RenderParts(fnArg.stage, fnArg.context)
        IN /\ fnRes.dispatched = (expected.kind = "ok")
           /\ fnRes.rendering = expected

\* The run has ended: it returned, or an exception left it (hydration failed,
\* a step raised, its task was cancelled).
RunEnded == pc \in {"returned", "hydration_failed", "raised", "cancelled"}

\* C32: every run ends, whether or not its calls ever complete: a fanout stage
\* the run waits in is left (at the latest when its deadline expires), so is a
\* chairman stage, and the run reaches its return unless an exception ended it.
C32_RunTerminates ==
    /\ (pc = "waitFanout") ~> (pc # "waitFanout")
    /\ (pc = "waitChair") ~> (pc # "waitChair")
    /\ <>RunEnded

\* C32 witness: the run returned although none of the calls it dispatched ever
\* completed: every stage ended at its deadline.
C32_Witness ==
    /\ pc = "returned"
    /\ Len(calls) > NumMembers
    /\ \A c \in 1..Len(calls) : calls[c].st = "cancelled"
    /\ Len(timeoutLog) = 3

\* The number of rows member m has in the results of the fanout stage at i.
RowCount(i, m) ==
    LET rows == ResultsOf(i)
    IN Cardinality({k \in 1..Len(rows) : rows[k].member = m})

\* Member m is named in the pending_members of a timeout event of stage i.
LoggedPending(i, m) ==
    \E k \in 1..Len(timeoutLog) :
        /\ timeoutLog[k].stage_id = stages[i]
        /\ \E n \in 1..Len(timeoutLog[k].pending_members) :
              timeoutLog[k].pending_members[n] = MemberName(m)

\* A task_error event of stage i names member m.
LoggedError(i, m) == <<stages[i], m>> \in errorLog

\* The three classes of the member of call c after its fanout stage.
Contributed(c) ==
    /\ calls[c].st \in {"ok", "none"}
    /\ RowCount(calls[c].stage, calls[c].who) = 1
    /\ ~LoggedPending(calls[c].stage, calls[c].who)
    /\ ~LoggedError(calls[c].stage, calls[c].who)
PendingAtDeadline(c) ==
    /\ calls[c].st = "cancelled"
    /\ RowCount(calls[c].stage, calls[c].who) = 0
    /\ LoggedPending(calls[c].stage, calls[c].who)
    /\ ~LoggedError(calls[c].stage, calls[c].who)
Errored(c) ==
    /\ calls[c].st = "raised"
    /\ RowCount(calls[c].stage, calls[c].who) = 0
    /\ ~LoggedPending(calls[c].stage, calls[c].who)
    /\ LoggedError(calls[c].stage, calls[c].who)

\* C33: once a fanout stage has been assembled, each member either contributed
\* exactly one row (its call completed without raising), or was pending at the
\* deadline (cancelled, named in the timeout event, no row), or errored (its
\* call raised, named in a task_error event, no row); the stage's result list
\* never has more rows than the council has members.
C33_MemberClasses ==
    /\ Len(stage1_results) <= NumMembers
    /\ Len(stage2_results) <= NumMembers
    /\ \A c \in 1..Len(calls) :
          (calls[c].who # Chair /\ Assembled(calls[c].stage)) =>
              Contributed(c) \/ PendingAtDeadline(c) \/ Errored(c)

\* C33 witness: a run in which all three classes occurred: in one assembled
\* fanout stage a member contributed and another was pending at the deadline,
\* and in an assembled fanout stage a member errored.
C33_Witness ==
    \E a, b, e \in 1..Len(calls) :
        /\ calls[a].stage = calls[b].stage
        /\ {calls[a].who, calls[b].who, calls[e].who} \subseteq Members
        /\ Assembled(calls[a].stage) /\ Assembled(calls[e].stage)
        /\ Contributed(a)
        /\ PendingAtDeadline(b)
        /\ Errored(e)

\* The call of the validate-council-applicability stage answered a well-formed
\* STOP decision: a JSON object whose decision is "STOP".
WellFormedStop(c) == calls[c].st = "ok" /\ calls[c].content = cStop

\* The call c of the validation stage is over and the run went on with its
\* outcome: the call returned, returned None or was cancelled at its deadline
\* (and not because the run itself was cancelled while waiting for it).
ValidationOver(c) ==
    /\ calls[c].who = Chair
    /\ stages[calls[c].stage] = "validate-council-applicability"
    /\ calls[c].st \in {"ok", "none", "cancelled"}
    /\ ~(pc = "cancelled" /\ idx = calls[c].stage)

\* The stage at index j has been executed: a call of it was dispatched.
Executed(j) == \E c \in 1..Len(calls) : calls[c].stage = j

\* The numeric stage subset gates the stage at index j out.
GatedOut(j) ==
    IF Kind(stages[j]) = "fanout_members"
      THEN FanoutSkipped(FanoutNumber(j))
      ELSE ChairmanSkipped(SingletonNumber(j))

\* C34: the stage loop is left early only after a well-formed STOP decision of
\* the validate-council-applicability stage; when that stage's call timed out,
\* returned nothing, or returned a text that is no JSON, a JSON value that is
\* no object or an object whose decision is not "STOP", the run goes on with
\* the next stage, and a run that returns has executed every following stage
\* the numeric subset does not gate out.
C34_StopOnlyOnWellFormedDecision ==
    /\ pc = "break" => WellFormedStop(Len(calls))
    /\ \A c \in 1..Len(calls) :
          (ValidationOver(c) /\ ~WellFormedStop(c)) =>
              /\ pc # "break"
              /\ idx > calls[c].stage
              /\ pc = "returned" =>
                    \A j \in (calls[c].stage + 1)..Len(stages) : Executed(j) \/ GatedOut(j)

\* C34 witness: the validation stage's call was cancelled at its deadline (the
\* stage's output is absent), the run went on and returned after executing the
\* panel, the ranking and the synthesis stage.
C34_Witness ==
    /\ pc = "returned"
    /\ \E c \in 1..Len(calls) :
          /\ ValidationOver(c)
          /\ calls[c].st = "cancelled"
          /\ \A j \in (calls[c].stage + 1)..Len(stages) : Executed(j)

\* C34 witness, second case: the validation stage answered a JSON value that
\* is no object and the run went on to dispatch the panel stage.
C34_WitnessNotObject ==
    \E c, d \in 1..Len(calls) :
        /\ ValidationOver(c)
        /\ calls[c].st = "ok" /\ calls[c].content = cList
        /\ calls[d].stage > calls[c].stage

\* The stages the numeric subset has no number for: the fanout stages after
\* the second and the chairman stages after the first.
LaterFanouts ==
    {j \in 1..Len(stages) : Kind(stages[j]) = "fanout_members" /\ FanoutNumber(j) > 2}
LaterSingles ==
    {j \in 1..Len(stages) : Kind(stages[j]) # "fanout_members" /\ SingletonNumber(j) > 1}

\* The calls of stage j that contributed a row, in dispatch order.
RowCalls(j) ==
    SelectSeq([c \in 1..Len(calls) |-> c],
              LAMBDA c : calls[c].stage = j /\ calls[c].st \in {"ok", "none"})

\* No stage of the set after j has been passed yet.
LastPassed(j, js) == j < idx /\ \A k \in js : k > j => k >= idx

RetryUndisturbed == fnArg.log = "returns" /\ ~fnArg.cancelled

RECURSIVE HasKeyOf(_, _)
HasKeyOf(payload, keys) ==
    \E i \in 1..Len(payload.items) :
        \/ payload.t = "dict" /\ payload.items[i].k \in keys
        \/ HasKeyOf(payload.items[i].val, keys)

\* The position of an item in its container, as a path step.
IndexNames == <<"[0]", "[1]", "[2]", "[3]">>

\* The leaves of a payload with the path to each: the keys and list positions
\* from the root, then the scalar (or the empty container) found there.
RECURSIVE Leaves(_)
Leaves(payload) ==
    IF payload.items = <<>>
      THEN {<<payload.t, payload.v>>}
      ELSE UNION { { <<IF payload.t = "dict" THEN payload.items[i].k ELSE IndexNames[i]>> \o l :
                       l \in Leaves(payload.items[i].val) } :
                   i \in 1..Len(payload.items) }

\* The path of a leaf goes through none of the keys.
AvoidsKeys(leaf, keys) == \A i \in 1..Len(leaf) : leaf[i] \notin keys

PositionsOf(type) == {i \in 1..Len(sse) : sse[i].type = type}

\* The metadata of the stage2_complete event for a label map.
RankingMetadata(labels) ==
    JDict(<<JItem("label_to_model", labels), JItem("aggregate_rankings", JList(<<>>))>>)

\* C37: what the streaming endpoint emits and keeps for the ranking step is
\* determined by the run that step made itself: the ranking rows are those of
\* the judges that answered in that run and the label map labels the panel of
\* that run, whatever panel results were emitted in stage1_complete; and the
\* final result is the chairman's result of the run the synthesis step made.
C37_StepsRerunTheCouncil ==
    \A k \in 1..Len(gen_runs) :
        LET w == gen_runs[k].world
        IN /\ gen_runs[k].stage = 2 =>
                /\ g_label_to_model = LabelMap(w.panel)
                /\ g_stage2_results = ResultRows(w.judges, "ranking")
                /\ \E i \in PositionsOf("stage2_complete") :
                      /\ sse[i].data = SanitizeForConversation(ResultRows(w.judges, "ranking"))
                      /\ sse[i].metadata = RankingMetadata(LabelMap(w.panel))
           /\ gen_runs[k].stage = 3 =>
                /\ g_stage3_result = ChairRow(w.final)
                /\ \E i \in PositionsOf("stage3_complete") :
                      sse[i].data = SanitizeForConversation(ChairRow(w.final))

\* C37 witness: the client was sent one panel result in stage1_complete and
\* then, in stage2_complete, a label map of two responses: the panel of the
\* ranking step's own run.
C37_Witness ==
    \E i \in PositionsOf("stage1_complete") : \E j \in PositionsOf("stage2_complete") :
        /\ Len(sse[i].data.items) = 1
        /\ sse[j].metadata = RankingMetadata(LabelMap(<<1, 2>>))
        /\ gen_pc = "closed"

\* The stage an event belongs to (0: none).
StageOfEvent(e) ==
    CASE e.type \in {"stage1_start", "stage1_complete"} -> 1
      [] e.type \in {"stage2_start", "stage2_complete"} -> 2
      [] e.type \in {"stage3_start", "stage3_complete", "execution"} -> 3
      [] OTHER -> 0

\* Every requested stage has sent its complete event.
AllRequestedComplete == \A n \in req_stages : PositionsOf(CompleteType(n)) # {}

\* C38: in the stream of a request no event is sent twice; a stage's complete
\* event is preceded by its start event and belongs to a requested stage; the
\* events of a stage precede those of every later stage; the assistant message
\* is stored only once every requested stage has completed; the complete event
\* is the last event and follows the storing; an error event is the last event
\* of its stream, which then has no complete event, and a stream ended by an
\* error ends with the error event.
C38_StreamEventsOrdered ==
    /\ \A i, j \in 1..Len(sse) : sse[i].type = sse[j].type => i = j
    /\ \A n \in 1..3 :
          \A j \in PositionsOf(CompleteType(n)) :
              /\ n \in req_stages
              /\ \E i \in PositionsOf(StartEvent(n).type) : i < j
    /\ \A i, j \in 1..Len(sse) :
          (StageOfEvent(sse[i]) # 0 /\ StageOfEvent(sse[j]) # 0
             /\ StageOfEvent(sse[i]) < StageOfEvent(sse[j])) => i < j
    /\ (\E k \in 1..Len(stored) : stored[k] = "add_assistant_message") => AllRequestedComplete
    /\ \A i \in PositionsOf("complete") :
          /\ i = Len(sse)
          /\ gen_pc = "closed"
          /\ stored[Len(stored)] = "add_assistant_message"
          /\ AllRequestedComplete
    /\ \A i \in PositionsOf("error") :
          /\ i = Len(sse)
          /\ gen_pc = "error"
          /\ PositionsOf("complete") = {}
    /\ gen_pc = "error" => sse[Len(sse)].type = "error"
    /\ gen_pc = "closed" => sse[Len(sse)].type = "complete"

\* C38 witness: a request for the three stages completed: nine events, the
\* title and the complete event after those of the stages.
C38_Witness ==
    /\ gen_pc = "closed"
    /\ req_stages = {1, 2, 3}
    /\ is_first_message
    /\ [i \in 1..Len(sse) |-> sse[i].type] =
          <<"stage1_start", "stage1_complete", "stage2_start", "stage2_complete",
            "stage3_start", "stage3_complete", "execution", "title_complete", "complete">>

\* C38 witness, the error case: the ranking stage raised after the panel stage
\* had completed; the error event is the last of the stream.
C38_WitnessError ==
    /\ gen_pc = "error"
    /\ [i \in 1..Len(sse) |-> sse[i].type] =
          <<"stage1_start", "stage1_complete", "stage2_start", "error">>

====
